---- MODULE Spec2Model ----
(***************************************************************************)
(* LevlStudio_Project: the workflow-JSON patchers, the UE file-drop bridge *)
(* (inbox / outbox) with its watcher and clients, and the polling loops.   *)
(***************************************************************************)
EXTENDS Integers, Sequences, FiniteSets, TLC

VARIABLES
    \* ---- workflow patchers (workflow_results/*.py) ----
    wf,         \* the workflow document (json.load of src, then of dst)
    wfPrev,     \* the document read by the latest patcher run
    patchLog,   \* the patchers run so far, oldest first ("schema" / "enhanced")
    patchExit,  \* "none" | "ok" | "crash" : how the latest run ended
    \* ---- the UE bridge (LevlStudioBridge/inbox, outbox) ----
    inbox,      \* file base name -> [st, cmd] : inbox/<name>.json
    outbox,     \* file base name -> [st, res] : outbox/<name>.json
    nextId,     \* the command ids generated so far are 1..nextId-1
    returned,   \* returned id -> the command _ue_enqueue queued under it
    \* ---- the watcher (LevlBridgeWatcherOneClick.run_bridge_once) ----
    wpc,        \* "idle" | "next" | "loaded" | "writing" | "remove"
    wtodo,      \* the paths of glob(INBOX + "*.json") not yet visited
    wpath,      \* the path being handled (0: none)
    wcmd,       \* cmd = json.load(f)
    processed,  \* the local counter of run_bridge_once
    escaped,    \* the exception that left the latest run_bridge_once ("none")
    nWritten,   \* command id -> result files written in full for it
    rmFailed,   \* path -> os.remove calls on it that raised (swallowed)
    \* ---- one polling loop, timed (half seconds) ----
    pollKind,   \* "none" | "oneclick" | "send" | "render" : the loop that runs
    pollArg,    \* [timeout, interval, render] in seconds: the loop's inputs
    pollPc,     \* "idle" | "loop" | "done"
    pollElapsed,\* time.time() - start, in half seconds
    pollEnd,    \* how the loop ended
    \* ---- one run of a command-line script or of a library call ----
    script,     \* "none" or the program that runs
    argv,       \* its arguments and what it finds in its environment
    spc,        \* "idle" | the statement it is at | "done"
    effects,    \* the calls it has made so far, in order
    exitCode,   \* sys.exit code / exception that ended it ("none" while running)
    ret         \* the value it returned

patchVars == <<wf, wfPrev, patchLog, patchExit>>
bridgeVars == <<inbox, outbox, nextId, returned>>
watcherVars == <<wpc, wtodo, wpath, wcmd, processed, escaped, nWritten, rmFailed>>
pollVars == <<pollKind, pollArg, pollPc, pollElapsed, pollEnd>>
toolVars == <<script, argv, spc, effects, exitCode, ret>>
vars == <<patchVars, bridgeVars, watcherVars, pollVars, toolVars>>

NoRet == [k |-> "absent"]

ToolIdle ==
    /\ script = "none"
    /\ argv = [none |-> TRUE]
    /\ spc = "idle"
    /\ effects = <<>>
    /\ exitCode = "none"
    /\ ret = NoRet

PollIdle ==
    /\ pollKind = "none"
    /\ pollArg = [timeout |-> 0, interval |-> 0, render |-> 0]
    /\ pollPc = "idle"
    /\ pollElapsed = 0
    /\ pollEnd = "none"

(***************************************************************************)
(* JSON values.  Every value is a record [k, n, e]: k the Python type of   *)
(* the loaded value, n its number, e its elements.                         *)
(*   null            [k = "null"]                                          *)
(*   int i           [k = "int",   n = i]                                  *)
(*   bool b          [k = "bool",  n = 0/1]                                *)
(*   float h/2       [k = "float", n = h]       (halves, so 2.5 is n = 5)  *)
(*   str "<i>"       [k = "numstr", n = i]      (the decimal text of i)    *)
(*   str (other)     [k = "str",   n = which]   (int() rejects it)         *)
(*   str(v)          [k = "strof", e = <<v>>]   (str() of a non-string)    *)
(*   list            [k = "list",  e = items]                              *)
(*   dict            [k = "dict",  n = which]   (n = 0 is {})              *)
(* Absent marks a key a dict does not have.                                *)
(***************************************************************************)
Val(k, n, e) == [k |-> k, n |-> n, e |-> e]
Absent == Val("absent", 0, <<>>)
Null == Val("null", 0, <<>>)
Int_(i) == Val("int", i, <<>>)
Bool_(b) == Val("bool", IF b THEN 1 ELSE 0, <<>>)
Flt(h) == Val("float", h, <<>>)
NumStr(i) == Val("numstr", i, <<>>)
Str(i) == Val("str", i, <<>>)
List(s) == Val("list", 0, s)
Dict(i) == Val("dict", i, <<>>)

\* the strings the code and the inputs use
NOTE == Str(0)
IMAGE == Str(1)
KSAMPLER == Str(2)

IsStr(v) == v.k \in {"str", "numstr", "strof"}
IsList(v) == v.k = "list"
IsNone(v) == v.k = "null"
Has(d, key) == d[key] # Absent

Max(a, b) == IF a >= b THEN a ELSE b

\* Python int(x): [ok, n]; ok = FALSE is ValueError / TypeError
PyInt(v) ==
    CASE v.k \in {"int", "bool", "numstr"} -> [ok |-> TRUE, n |-> v.n]
      [] v.k = "float" ->
            [ok |-> TRUE, n |-> IF v.n >= 0 THEN v.n \div 2 ELSE -((-v.n) \div 2)]
      [] OTHER -> [ok |-> FALSE, n |-> 0]

\* Python float(x): [ok, v]
PyFloat(v) ==
    CASE v.k \in {"int", "bool", "numstr"} -> [ok |-> TRUE, v |-> Flt(2 * v.n)]
      [] v.k = "float" -> [ok |-> TRUE, v |-> v]
      [] OTHER -> [ok |-> FALSE, v |-> Null]

\* Python str(x)
PyStr(v) ==
    CASE IsStr(v) -> v
      [] v.k = "int" -> NumStr(v.n)
      [] OTHER -> Val("strof", 0, <<v>>)

\* coerce_int with the default forgotten: the value comes back as it was
coerce_int_KeepsValue(x, default) == IF PyInt(x).ok THEN Int_(PyInt(x).n) ELSE x

\* workflow_schema_patch.coerce_int(x, default)
coerce_int(x, default) == IF PyInt(x).ok THEN Int_(PyInt(x).n) ELSE default

NodeKeys == {"id", "type", "name", "pos", "position", "x", "y", "flags", "order",
             "mode", "properties", "widgets_values", "inputs", "outputs"}

(***************************************************************************)
(* workflow_results/workflow_schema_patch.py                               *)
(***************************************************************************)
\* node[key] = default when the key is missing or None
FillNone(node, key, default) ==
    IF ~Has(node, key) \/ IsNone(node[key]) THEN [node EXCEPT ![key] = default] ELSE node

\* dict.setdefault(key, default)
SetDefault(d, key, default) ==
    IF ~Has(d, key) THEN [d EXCEPT ![key] = default] ELSE d

\* ensure_position(node): [ok, node]; ok = FALSE when float() raises
ensure_position(node) ==
    LET raw == IF Has(node, "pos") /\ IsList(node.pos) /\ Len(node.pos.e) = 2
               THEN <<node.pos.e[1], node.pos.e[2]>>
               ELSE <<IF Has(node, "x") THEN node.x ELSE Int_(0),
                      IF Has(node, "y") THEN node.y ELSE Int_(0)>>
        fx == PyFloat(raw[1])
        fy == PyFloat(raw[2])
    IN  IF Has(node, "position")
        THEN [ok |-> TRUE, node |-> [node EXCEPT !.pos = Absent]]
        ELSE IF fx.ok /\ fy.ok
             THEN [ok |-> TRUE,
                   node |-> [node EXCEPT !.position = List(<<fx.v, fy.v>>),
                                         !.pos = Absent]]
             ELSE [ok |-> FALSE, node |-> node]

\* ensure_required_fields(node)
ensure_required_fields(node) ==
    LET n1 == FillNone(node, "flags", Dict(0))
        n2 == FillNone(n1, "order", Int_(0))
        n3 == FillNone(n2, "mode", Int_(0))
        n4 == FillNone(n3, "properties", Dict(0))
        n5 == FillNone(n4, "widgets_values", List(<<>>))
        n6 == SetDefault(n5, "inputs", List(<<>>))
        n7 == SetDefault(n6, "outputs", List(<<>>))
    IN  SetDefault(n7, "properties", Dict(0))

\* sanitize_link_tuple without the "None in (...)" test
sanitize_link_tuple_NoNoneTest(link) ==
    IF ~IsList(link) \/ Len(link.e) < 6
    THEN [ok |-> FALSE, link |-> Null]
    ELSE [ok |-> TRUE,
          link |-> List(<<coerce_int(link.e[1], Null), coerce_int(link.e[2], Null),
                          coerce_int(link.e[3], Null), coerce_int(link.e[4], Null),
                          coerce_int(link.e[5], Null), link.e[6]>>)]

\* sanitize_link_tuple(link): [ok, link]; ok = FALSE is the None return
sanitize_link_tuple(link) ==
    IF ~IsList(link) \/ Len(link.e) < 6
    THEN [ok |-> FALSE, link |-> Null]
    ELSE LET c(i) == coerce_int(link.e[i], Null)
             dtype == IF IsStr(link.e[6]) THEN link.e[6] ELSE Null
         IN  IF (\E i \in 1..5 : IsNone(c(i))) \/ IsNone(dtype)
             THEN [ok |-> FALSE, link |-> Null]
             ELSE [ok |-> TRUE, link |-> List(<<c(1), c(2), c(3), c(4), c(5), dtype>>)]

\* the node loop of main(): [ok, nodes, max_node_id]
RECURSIVE SchemaNodes(_, _, _, _)
SchemaNodes(nodes, i, max_node_id, acc) ==
    IF i > Len(nodes)
    THEN [ok |-> TRUE, nodes |-> acc, max_node_id |-> max_node_id]
    ELSE LET n0 == nodes[i]
             n1 == IF ~Has(n0, "id") THEN [n0 EXCEPT !.id = Int_(max_node_id + 1)] ELSE n0
             n2 == [n1 EXCEPT !.id = coerce_int(n1.id, Int_(max_node_id + 1))]
             m2 == Max(max_node_id, n2.id.n)
             n3 == IF ~Has(n2, "type") \/ ~IsStr(n2.type)
                   THEN [n2 EXCEPT !.type = IF Has(n2, "name") THEN n2.name ELSE NOTE]
                   ELSE n2
             p  == ensure_position(n3)
         IN  IF ~p.ok
             THEN [ok |-> FALSE, nodes |-> acc, max_node_id |-> m2]
             ELSE SchemaNodes(nodes, i + 1, m2, Append(acc, ensure_required_fields(p.node)))

\* the link loop inserting at the front instead of appending
RECURSIVE SchemaLinks_Prepend(_, _, _)
SchemaLinks_Prepend(links, i, acc) ==
    IF i > Len(links) THEN acc
    ELSE LET fixed == sanitize_link_tuple(links[i])
         IN  SchemaLinks_Prepend(links, i + 1,
                                 IF fixed.ok THEN <<fixed.link>> \o acc ELSE acc)

\* the link loop of main(): the sanitized links, in order
RECURSIVE SchemaLinks(_, _, _)
SchemaLinks(links, i, acc) ==
    IF i > Len(links) THEN acc
    ELSE LET fixed == sanitize_link_tuple(links[i])
         IN  SchemaLinks(links, i + 1, IF fixed.ok THEN Append(acc, fixed.link) ELSE acc)

\* enumerate() without start=1
Reindex_FromZero(links) ==
    [i \in 1..Len(links) |-> List([links[i].e EXCEPT ![1] = Int_(i - 1)])]

\* "for i, l in enumerate(clean_links, start=1): l[0] = i"
Reindex(links) ==
    [i \in 1..Len(links) |-> List([links[i].e EXCEPT ![1] = Int_(i)])]

\* main() of workflow_schema_patch.py on the loaded document: [ok, doc]
SchemaPatch(data) ==
    LET d1 == SetDefault(SetDefault(data, "groups", List(<<>>)), "config", Dict(0))
        ns == SchemaNodes(d1.nodes, 1, 0, <<>>)
        ls == Reindex(SchemaLinks(d1.links, 1, <<>>))
    IN  IF ~ns.ok THEN [ok |-> FALSE, doc |-> data]
        ELSE [ok |-> TRUE,
              doc |-> [d1 EXCEPT !.nodes = ns.nodes, !.links = ls,
                                 !.last_node_id = Int_(ns.max_node_id),
                                 !.last_link_id = Int_(Len(ls))]]

(***************************************************************************)
(* workflow_results/enhanced_workflow_patcher.py                           *)
(***************************************************************************)
\* ensure_node_schema(node): [ok, node]
ensure_node_schema(node) ==
    LET n1 == FillNone(node, "flags", Dict(0))
        n2 == FillNone(n1, "order", Int_(0))
        n3 == FillNone(n2, "mode", Int_(0))
        n4 == FillNone(n3, "properties", Dict(0))
        n5 == FillNone(n4, "inputs", List(<<>>))
        n6 == FillNone(n5, "outputs", List(<<>>))
        usePos == Has(n6, "pos") /\ IsList(n6.pos) /\ Len(n6.pos.e) >= 2
        fx == IF usePos THEN PyFloat(n6.pos.e[1]) ELSE [ok |-> TRUE, v |-> Flt(0)]
        fy == IF usePos THEN PyFloat(n6.pos.e[2]) ELSE [ok |-> TRUE, v |-> Flt(0)]
        n7 == IF Has(n6, "position") THEN n6
              ELSE [n6 EXCEPT !.position = List(<<fx.v, fy.v>>)]
        n8 == [n7 EXCEPT !.pos = Absent]
        n9 == FillNone(n8, "widgets_values", List(<<>>))
        n10 == IF Has(n9, "id") /\ PyInt(n9.id).ok
               THEN [n9 EXCEPT !.id = Int_(PyInt(n9.id).n)] ELSE n9
        n11 == IF ~Has(n10, "type") \/ ~IsStr(n10.type)
               THEN [n10 EXCEPT !.type = NOTE] ELSE n10
    IN  IF ~Has(n6, "position") /\ ~(fx.ok /\ fy.ok)
        THEN [ok |-> FALSE, node |-> node]
        ELSE [ok |-> TRUE, node |-> n11]

\* clean_links(links): the kept links, before the renumbering
RECURSIVE EnhancedLinks(_, _, _)
EnhancedLinks(links, i, acc) ==
    IF i > Len(links) THEN acc
    ELSE LET link == links[i]
             short == ~IsList(link) \/ Len(link.e) < 6
             hasNull == \E j \in 1..6 : IsNone(link.e[j])
             bad == \E j \in 1..5 : ~PyInt(link.e[j]).ok
             clean_link == List(<<Int_(PyInt(link.e[1]).n), Int_(PyInt(link.e[2]).n),
                                  Int_(PyInt(link.e[3]).n), Int_(PyInt(link.e[4]).n),
                                  Int_(PyInt(link.e[5]).n), PyStr(link.e[6])>>)
         IN  EnhancedLinks(links, i + 1,
                 IF short THEN acc
                 ELSE IF hasNull THEN acc
                 ELSE IF bad THEN acc
                 ELSE Append(acc, clean_link))

clean_links(links) == Reindex(EnhancedLinks(links, 1, <<>>))

\* the node loop of main(): [ok, nodes, max_node_id]
RECURSIVE EnhancedNodes(_, _, _, _)
EnhancedNodes(nodes, i, max_node_id, acc) ==
    IF i > Len(nodes)
    THEN [ok |-> TRUE, nodes |-> acc, max_node_id |-> max_node_id]
    ELSE LET n0 == nodes[i]
             n1 == IF ~Has(n0, "id") THEN [n0 EXCEPT !.id = Int_(i)] ELSE n0
             pi == PyInt(n1.id)
             n2 == IF pi.ok THEN n1 ELSE [n1 EXCEPT !.id = Int_(i)]
             m2 == Max(max_node_id, IF pi.ok THEN pi.n ELSE i)
             p  == ensure_node_schema(n2)
         IN  IF ~p.ok
             THEN [ok |-> FALSE, nodes |-> acc, max_node_id |-> m2]
             ELSE EnhancedNodes(nodes, i + 1, m2, Append(acc, p.node))

\* main() of enhanced_workflow_patcher.py on the loaded document: [ok, doc]
EnhancedPatch(data) ==
    LET d1 == SetDefault(SetDefault(data, "groups", List(<<>>)), "config", Dict(0))
        ns == EnhancedNodes(d1.nodes, 1, 0, <<>>)
        ls == clean_links(d1.links)
    IN  IF ~ns.ok THEN [ok |-> FALSE, doc |-> data]
        ELSE [ok |-> TRUE,
              doc |-> [d1 EXCEPT !.nodes = ns.nodes, !.links = ls,
                                 !.last_node_id = Int_(ns.max_node_id),
                                 !.last_link_id = Int_(Len(ls))]]

(***************************************************************************)
(* The UE bridge: levl_ue_to_comfy_oneclick_server.py (the client side)    *)
(* and UE_Content_Python/LevlBridgeWatcherOneClick.py (the watcher).       *)
(***************************************************************************)
MaxCmds == 2
MaxRemoveFails == 1
max_wait_time == 300

Ids == 1..MaxCmds

\* a file is missing ("none"), created but not yet flushed and closed
\* ("open": it exists and does not parse) or written ("full")
NoCmd == [id |-> 0, action |-> "", payload |-> [bp_path |-> FALSE, resolution |-> "", output_movie_path |-> ""]]
NoRes == [ok |-> FALSE, id |-> 0, how |-> "none", msg |-> "", movie_path |-> ""]
NoInFile == [st |-> "none", cmd |-> NoCmd]
NoOutFile == [st |-> "none", res |-> NoRes]

\* the dicts of _ok, _err and _ue_fetch
OkRes(cmd_id, movie_path) ==
    [ok |-> TRUE, id |-> cmd_id, how |-> "data", msg |-> "", movie_path |-> movie_path]
ErrRes(cmd_id, msg) ==
    [ok |-> FALSE, id |-> cmd_id, how |-> "error", msg |-> msg, movie_path |-> ""]
PendingRes == [ok |-> FALSE, id |-> 0, how |-> "pending", msg |-> "", movie_path |-> ""]
ParseErrRes == [ok |-> FALSE, id |-> 0, how |-> "error", msg |-> "JSONDecodeError", movie_path |-> ""]

\* what json.loads reads in a file: its value, or nothing that parses
Unparseable == [ok |-> FALSE, id |-> 0, how |-> "unparseable", msg |-> "", movie_path |-> ""]
Content(file) == IF file.st = "full" THEN file.res ELSE Unparseable

BridgeInit ==
    /\ inbox = [f \in Ids |-> NoInFile]
    /\ outbox = [f \in Ids |-> NoOutFile]
    /\ nextId = 1
    /\ returned = [c \in Ids |-> NoCmd]
    /\ wpc = "idle"
    /\ wtodo = {}
    /\ wpath = 0
    /\ wcmd = NoCmd
    /\ processed = 0
    /\ escaped = "none"
    /\ nWritten = [c \in Ids |-> 0]
    /\ rmFailed = [f \in Ids |-> 0]


(***************************************************************************)
(* The patchers as a state machine: a document is read, patched by one of  *)
(* the two scripts and written; the written file may be patched again.     *)
(***************************************************************************)
MaxNodes == 2
MaxLinks == 2
MaxDeviations == 1
MaxRuns == 2

SeqUpTo(S, n) == UNION {[1..k -> S] : k \in 0..n}

\* a node as ComfyUI itself saves it
BaseNode ==
    [id |-> Int_(1), type |-> KSAMPLER, name |-> Absent, pos |-> Absent,
     position |-> List(<<Flt(0), Flt(0)>>), x |-> Absent, y |-> Absent,
     flags |-> Dict(0), order |-> Int_(0), mode |-> Int_(0), properties |-> Dict(0),
     widgets_values |-> List(<<>>), inputs |-> List(<<>>), outputs |-> List(<<>>)]

\* what else an input file may hold under a key
Alts(key) ==
    CASE key = "id" -> {Absent, Null, Int_(2), Int_(7), NumStr(3), IMAGE, Flt(5), Bool_(TRUE)}
      [] key = "type" -> {Absent, Int_(7)}
      [] key = "name" -> {IMAGE, Int_(7)}
      [] key = "pos" -> {List(<<Int_(3), Flt(9)>>), List(<<Int_(3), Int_(4), Int_(5)>>),
                         IMAGE, List(<<IMAGE, Int_(4)>>)}
      [] key = "position" -> {Absent, Null}
      [] key = "x" -> {Int_(4), IMAGE}
      [] key = "y" -> {Int_(4)}
      [] key = "flags" -> {Absent, Null, Dict(1)}
      [] key = "order" -> {Absent, Null, Int_(5)}
      [] key = "mode" -> {Absent, Null}
      [] key = "properties" -> {Absent, Null}
      [] key = "widgets_values" -> {Absent, Null, Dict(1)}
      [] key = "inputs" -> {Absent, Null}
      [] key = "outputs" -> {Absent, Null}

\* the nodes that differ from BaseNode under at most k keys
RECURSIVE Deviating(_)
Deviating(k) ==
    IF k = 0 THEN {BaseNode}
    ELSE LET S == Deviating(k - 1)
         IN  S \cup {[n EXCEPT ![key] = v] : n \in S, <<key, v>> \in
                        UNION {{<<kk, vv>> : vv \in Alts(kk)} : kk \in NodeKeys}}

\* every combination of the schema fields being missing, null or present
SchemaFieldNodes ==
    {[BaseNode EXCEPT !.position = a, !.flags = b, !.order = c, !.mode = d,
                      !.properties = e, !.pos = f] :
        a \in {Absent, Null, List(<<Flt(0), Flt(0)>>)},
        b \in {Absent, Null, Dict(1)}, c \in {Absent, Null, Int_(5)},
        d \in {Absent, Null, Int_(0)}, e \in {Absent, Null, Dict(0)},
        f \in {Absent, List(<<Int_(3), Flt(9)>>)}}

IdNodes == {[BaseNode EXCEPT !.id = v] : v \in Alts("id") \cup {Int_(1)}}

Link(id, src, dst, dtype) == List(<<id, src, Int_(0), dst, Int_(0), dtype>>)

InputLinks ==
    {Null,
     List(<<Int_(1), Int_(1), Int_(0), Int_(2), Int_(0)>>),
     Link(Int_(1), Int_(1), Int_(2), IMAGE),
     Link(Int_(5), Int_(2), Int_(1), IMAGE),
     Link(Int_(2), Int_(1), Int_(9), IMAGE),
     Link(NumStr(4), NumStr(1), Flt(4), IMAGE),
     Link(Int_(3), IMAGE, Int_(2), IMAGE),
     Link(Int_(3), Int_(1), Null, IMAGE),
     Link(Int_(3), Int_(1), Int_(2), Null),
     Link(Int_(3), Int_(1), Int_(2), Int_(0)),
     List(<<Int_(6), Int_(1), Int_(0), Int_(2), Int_(0), IMAGE, Dict(1)>>)}

\* the top-level keys beside nodes and links
TopAlts ==
    {[groups |-> Absent, config |-> Absent, last_node_id |-> Absent, last_link_id |-> Absent],
     [groups |-> List(<<>>), config |-> Dict(0), last_node_id |-> Int_(2), last_link_id |-> Int_(1)],
     [groups |-> List(<<>>), config |-> Dict(1), last_node_id |-> Int_(9), last_link_id |-> Int_(9)]}

Doc(nodes, links, top) ==
    [nodes |-> nodes, links |-> links, groups |-> top.groups, config |-> top.config,
     last_node_id |-> top.last_node_id, last_link_id |-> top.last_link_id]

InputDocs ==
    {Doc(<<n>>, <<>>, t) : n \in SchemaFieldNodes \cup Deviating(MaxDeviations), t \in TopAlts}
    \cup {Doc(ns, <<>>, t) : ns \in SeqUpTo(IdNodes, MaxNodes), t \in TopAlts}
    \cup {Doc(<<BaseNode, [BaseNode EXCEPT !.id = Int_(2)]>>, ls, t) :
            ls \in SeqUpTo(InputLinks, MaxLinks), t \in TopAlts}

PatchInit ==
    /\ BridgeInit
    /\ PollIdle
    /\ ToolIdle
    /\ wf \in InputDocs
    /\ wfPrev = wf
    /\ patchLog = <<>>
    /\ patchExit = "none"

\* one run of "python3 <script> src dst" on the current file
RunPatch(name, result) ==
    /\ patchExit # "crash"
    /\ Len(patchLog) < MaxRuns
    /\ wfPrev' = wf
    /\ patchLog' = Append(patchLog, name)
    /\ wf' = IF result.ok THEN result.doc ELSE wf
    /\ patchExit' = IF result.ok THEN "ok" ELSE "crash"
    /\ UNCHANGED <<bridgeVars, watcherVars, pollVars, toolVars>>

RunSchemaPatch == RunPatch("schema", SchemaPatch(wf))

RunEnhancedPatch == RunPatch("enhanced", EnhancedPatch(wf))

PatchNext == RunSchemaPatch \/ RunEnhancedPatch

SpecPatch == PatchInit /\ [][PatchNext]_vars

(***************************************************************************)
(* Properties of the patchers                                              *)
(***************************************************************************)
Patched == patchExit = "ok"
LastPatcher == patchLog[Len(patchLog)]
NodeIdsOf(d) == {d.nodes[i].id : i \in 1..Len(d.nodes)}
LinksOf(d) == {d.links[i] : i \in 1..Len(d.links)}
SchemaFields == {"position", "flags", "order", "mode", "properties"}

\* C3 (as claimed): after a patcher run every remaining link references two
\* existing node ids: its source and its destination are ids of output nodes.
C3_LinksReferenceExistingNodes ==
    Patched => \A l \in LinksOf(wf) : l.e[2] \in NodeIdsOf(wf) /\ l.e[4] \in NodeIdsOf(wf)

\* C3 (amended): after a patcher run every remaining link is a 6-entry list
\* whose link id, source node id, source slot, destination node id and
\* destination slot are integers (never null) and whose data type is a
\* string; whether the two node ids name existing nodes is not checked.
C3_LinksAreWellTyped ==
    Patched => \A l \in LinksOf(wf) :
        /\ IsList(l) /\ Len(l.e) = 6
        /\ \A j \in 1..5 : l.e[j].k = "int"
        /\ IsStr(l.e[6])

\* a run dropped a null link, kept another one, and a kept link is dangling
C3_Witness ==
    /\ Patched
    /\ Null \in LinksOf(wfPrev)
    /\ \E l \in LinksOf(wf) : l.e[4] \notin NodeIdsOf(wf)

\* C4: after a patcher run every node has position, flags, order, mode and
\* properties present and non-null, and no legacy pos field.
C4_NodesHaveSchemaFields ==
    Patched => \A i \in 1..Len(wf.nodes) :
        /\ \A k \in SchemaFields : Has(wf.nodes[i], k) /\ ~IsNone(wf.nodes[i][k])
        /\ ~Has(wf.nodes[i], "pos")

\* a document ComfyUI itself would accept as saved
WellFormedNode(n) ==
    /\ n.id.k = "int" /\ IsStr(n.type) /\ ~Has(n, "pos")
    /\ IsList(n.position) /\ Len(n.position.e) = 2
    /\ n.flags.k = "dict" /\ n.order.k = "int" /\ n.mode.k = "int"
    /\ n.properties.k = "dict" /\ n.widgets_values.k \in {"list", "dict"}
    /\ IsList(n.inputs) /\ IsList(n.outputs)

WellFormedLink(l) ==
    /\ IsList(l) /\ Len(l.e) = 6
    /\ \A j \in 1..5 : l.e[j].k = "int"
    /\ IsStr(l.e[6])

WellFormed(d) ==
    /\ \A i \in 1..Len(d.nodes) : WellFormedNode(d.nodes[i])
    /\ \A i \in 1..Len(d.links) : WellFormedLink(d.links[i])
    /\ Has(d, "groups") /\ Has(d, "config")
    /\ d.last_node_id.k = "int" /\ \A i \in 1..Len(d.nodes) : d.nodes[i].id.n <= d.last_node_id.n
    /\ d.last_link_id.k = "int" /\ \A i \in 1..Len(d.links) : d.links[i].e[1].n <= d.last_link_id.n

\* ... whose links are numbered 1..N in order and whose last ids are exact
Renumbered(d) ==
    /\ WellFormed(d)
    /\ \A i \in 1..Len(d.links) : d.links[i].e[1] = Int_(i)
    /\ d.last_link_id = Int_(Len(d.links))
    /\ \A m \in 0..d.last_node_id.n :
          (\A i \in 1..Len(d.nodes) : d.nodes[i].id.n <= m) => m = d.last_node_id.n

\* C5 (as claimed): patching a well-formed workflow, and in particular any
\* output of a patcher, leaves the document as it was.
C5_PatchIsNoOpOnValid ==
    (Patched /\ (WellFormed(wfPrev) \/ Len(patchLog) >= 2)) => wf = wfPrev

\* C5 (amended): running the same patcher script again on its own output
\* leaves the document as it was, and so does patching a well-formed workflow
\* whose link ids are already 1..N in order with last_link_id = N and
\* last_node_id = the largest node id.
C5_PatchIsIdempotent ==
    /\ (Patched /\ Len(patchLog) >= 2 /\ patchLog[Len(patchLog) - 1] = LastPatcher)
          => wf = wfPrev
    /\ (Patched /\ Renumbered(wfPrev)) => wf = wfPrev

\* the second run of one script, after a first run that had repairs to make
C5_Witness ==
    /\ Patched /\ Len(patchLog) = 2 /\ patchLog[1] = patchLog[2]
    /\ wf = wfPrev
    /\ Len(wf.links) >= 1 /\ wf.last_node_id = Int_(2)

\* the claim's reading of which links survive, and what is kept of them
ClaimedSurvivor(l) ==
    /\ IsList(l) /\ Len(l.e) >= 6
    /\ \A j \in 1..5 : PyInt(l.e[j]).ok
    /\ IsStr(l.e[6])

EnhancedSurvivor(l) ==
    /\ IsList(l) /\ Len(l.e) >= 6
    /\ \A j \in 1..5 : PyInt(l.e[j]).ok
    /\ ~IsNone(l.e[6])

\* the links of `out` are the links of `inp` that satisfy Keep, in input
\* order, numbered 1..N, and last_link_id = N
LinksAreSurvivors(inp, out, Keep(_)) ==
    LET kept == SelectSeq(inp.links, Keep)
    IN  /\ Len(out.links) = Len(kept)
        /\ out.last_link_id = Int_(Len(kept))
        /\ \A i \in 1..Len(kept) :
              /\ out.links[i].e[1] = Int_(i)
              /\ \A j \in 2..5 : out.links[i].e[j] = Int_(PyInt(kept[i].e[j]).n)
              /\ out.links[i].e[6] = PyStr(kept[i].e[6])

\* C9 (as claimed): a link survives iff it is a list of at least 6 entries
\* whose first five are integer-coercible and whose sixth is a string; the
\* survivors keep their order, carry the ids 1..N and last_link_id = N.
C9_SurvivorsHaveStringType ==
    Patched => LinksAreSurvivors(wfPrev, wf, ClaimedSurvivor)

\* C9 (amended): as claimed for workflow_schema_patch.py; in
\* enhanced_workflow_patcher.py the sixth entry only has to be non-null (it
\* is converted with str()), the rest being as claimed.
C9_SurvivorsPerPatcher ==
    Patched => IF LastPatcher = "schema"
               THEN LinksAreSurvivors(wfPrev, wf, ClaimedSurvivor)
               ELSE LinksAreSurvivors(wfPrev, wf, EnhancedSurvivor)

\* a run dropped a link and gave a survivor another id than it had
C9_Witness ==
    /\ Patched
    /\ Len(wfPrev.links) = 2 /\ Len(wf.links) = 1
    /\ wfPrev.links[1] = Null
    /\ wfPrev.links[2].e[1] = Int_(5) /\ wf.links[1].e[1] = Int_(1)

\* C10: after a patcher run every node id is an integer and last_node_id is
\* an integer greater than or equal to every node id.
C10_NodeIdsAreInts ==
    Patched => /\ wf.last_node_id.k = "int"
               /\ \A i \in 1..Len(wf.nodes) :
                     /\ wf.nodes[i].id.k = "int"
                     /\ wf.nodes[i].id.n <= wf.last_node_id.n

\* a run synthesized an id for a node that had none or a non-coercible one
C10_Witness ==
    /\ Patched
    /\ Len(wf.nodes) = 2
    /\ ~Has(wfPrev.nodes[1], "id") /\ wfPrev.nodes[2].id = IMAGE
    /\ wf.nodes[2].id.k = "int"

(***************************************************************************)
(* The bridge as a state machine                                           *)
(***************************************************************************)
\* the payloads and actions the callers of _ue_enqueue pass
PayloadInputs ==
    {[bp_path |-> TRUE, resolution |-> "1280x720", output_movie_path |-> "out.mp4"],
     [bp_path |-> FALSE, resolution |-> "1280x720", output_movie_path |-> "out.mp4"]}

CmdInputs ==
    {<<"oneclick_build_and_render", p>> : p \in PayloadInputs}
    \cup {<<"import_asset", [bp_path |-> TRUE, resolution |-> "1280x720", output_movie_path |-> "out.mp4"]>>}

\* _ue_enqueue(bridge_root, action, payload) with cmd_id the generated id:
\* the file it writes and the dict it returns
ue_enqueue(cmd_id, action, payload) ==
    [path |-> cmd_id,
     cmd |-> [id |-> cmd_id, action |-> action, payload |-> payload],
     ret |-> [ok |-> TRUE, id |-> cmd_id]]

\* _ue_fetch(bridge_root, cmd_id)
ue_fetch(cmd_id) ==
    IF outbox[cmd_id].st = "none" THEN PendingRes
    ELSE IF outbox[cmd_id].st = "full" THEN outbox[cmd_id].res
    ELSE ParseErrRes

\* a result path that does not depend on the command id
result_path_Fixed(cmd_id) == 1

\* _result_path(cmd_id): the outbox file of a command id
result_path(cmd_id) == cmd_id

\* one test of the wait loop of oneclick_build_and_render
RenderWaitStep(is_rendering, elapsed) ==
    IF ~is_rendering THEN "done"
    ELSE IF elapsed > max_wait_time THEN "raise"
    ELSE "delay"

\* how the wait loop ends for a render that lasts `render` seconds, the
\* loop testing once a second from elapsed = 0: it raises iff the render is
\* still running at the first test made after max_wait_time
RenderWait(render) ==
    IF render > max_wait_time + 1 THEN "raise" ELSE "done"

\* what Unreal does with a command: the stage that fails ("none": all
\* succeed) and the seconds the render lasts
RenderTimes == {0, max_wait_time + 1, max_wait_time + 2}
Envs == {[fail |-> st, render |-> 0] : st \in {"level", "blueprint", "spawn"}}
        \cup {[fail |-> "none", render |-> r] : r \in RenderTimes}

\* oneclick_build_and_render(cmd): [raised, msg, movie_path]
oneclick_build_and_render(cmd, env) ==
    LET p == cmd.payload
        Raise(msg) == [raised |-> TRUE, msg |-> msg, movie_path |-> ""]
    IN  IF ~p.bp_path THEN Raise("'bp_path'")
        ELSE IF env.fail = "level" THEN Raise("Failed to load level")
        ELSE IF env.fail = "blueprint" THEN Raise("Blueprint not found")
        ELSE IF env.fail = "spawn" THEN Raise("Failed to spawn actor")
        ELSE IF env.fail = "sequence" THEN Raise("Failed to create Level Sequence")
        ELSE IF env.fail = "camera" THEN Raise("Failed to create Cine Camera")
        ELSE IF p.resolution # "1280x720" THEN Raise("ValueError")
        ELSE IF RenderWait(env.render) = "raise"
             THEN Raise("Render timed out after 5 minutes")
        ELSE [raised |-> FALSE, msg |-> "", movie_path |-> p.output_movie_path]

ACTIONS_ == {"oneclick_build_and_render"}

\* the try / except of run_bridge_once: the result dict it writes
RunAction(cmd, env) ==
    IF cmd.action \notin ACTIONS_ THEN ErrRes(cmd.id, "Unknown action")
    ELSE LET r == oneclick_build_and_render(cmd, env)
         IN  IF r.raised THEN ErrRes(cmd.id, r.msg) ELSE OkRes(cmd.id, r.movie_path)

\* ---- client actions ----
\* _ue_enqueue (the server runs one tool call at a time): path.write_text
\* creates the file ...
EnqueueOpen ==
    /\ nextId \in Ids
    /\ \A f \in Ids : inbox[f].st # "open"
    /\ \E c \in CmdInputs :
          LET e == ue_enqueue(nextId, c[1], c[2])
          IN  inbox' = [inbox EXCEPT ![e.path] = [st |-> "open", cmd |-> e.cmd]]
    /\ nextId' = nextId + 1
    /\ UNCHANGED <<outbox, returned, watcherVars, patchVars, pollVars, toolVars>>

\* ... and flushes and closes it; _ue_enqueue returns
EnqueueClose ==
    /\ \E f \in Ids :
          /\ inbox[f].st = "open"
          /\ inbox' = [inbox EXCEPT ![f].st = "full"]
          /\ LET e == ue_enqueue(f, inbox[f].cmd.action, inbox[f].cmd.payload)
             IN  returned' = [returned EXCEPT ![e.ret.id] = e.cmd]
    /\ UNCHANGED <<outbox, nextId, watcherVars, patchVars, pollVars, toolVars>>

\* ---- run_bridge_once ----
\* glob.glob with a pattern that matches no command file
glob_NoMatch == {}

\* glob.glob(INBOX + "*.json")
glob == {f \in Ids : inbox[f].st # "none"}

\* ensure_dirs(); processed = 0; the files to visit
PassBegin ==
    /\ wpc = "idle"
    /\ wpc' = "next"
    /\ wtodo' = glob
    /\ processed' = 0
    /\ escaped' = "none"
    /\ UNCHANGED <<wpath, wcmd, nWritten, rmFailed, bridgeVars, patchVars, pollVars, toolVars>>

\* for path in ...: open(path); cmd = json.load(f)   (outside the try)
LoadCmd ==
    /\ wpc = "next"
    /\ \E f \in wtodo :
          IF inbox[f].st = "full"
          THEN /\ wpc' = "loaded"
               /\ wpath' = f
               /\ wcmd' = inbox[f].cmd
               /\ wtodo' = wtodo \ {f}
               /\ UNCHANGED <<escaped, processed>>
          ELSE /\ wpc' = "idle"
               /\ escaped' = "JSONDecodeError"
               /\ wtodo' = {}
               /\ processed' = 0
               /\ UNCHANGED <<wpath, wcmd>>
    /\ UNCHANGED <<nWritten, rmFailed, bridgeVars, patchVars, pollVars, toolVars>>

\* try: fn(cmd) ... except: ...; _ok / _err open the result file
OpenResult ==
    /\ wpc = "loaded"
    /\ \E env \in Envs :
          outbox' = [outbox EXCEPT ![result_path(wcmd.id)] =
                        [st |-> "open", res |-> RunAction(wcmd, env)]]
    /\ wpc' = "writing"
    /\ UNCHANGED <<wtodo, wpath, wcmd, processed, escaped, nWritten, rmFailed,
                   inbox, nextId, returned, patchVars, pollVars, toolVars>>

\* json.dump and close; processed += 1 after _ok
CloseResult ==
    /\ wpc = "writing"
    /\ outbox' = [outbox EXCEPT ![result_path(wcmd.id)].st = "full"]
    /\ nWritten' = [nWritten EXCEPT ![wcmd.id] = @ + 1]
    /\ processed' = IF outbox[result_path(wcmd.id)].res.ok THEN processed + 1 ELSE processed
    /\ wpc' = "remove"
    /\ UNCHANGED <<wtodo, wpath, wcmd, escaped, rmFailed,
                   inbox, nextId, returned, patchVars, pollVars, toolVars>>

\* f[1] + ... + f[n]
RECURSIVE SumUpTo(_, _)
SumUpTo(f, n) == IF n = 0 THEN 0 ELSE f[n] + SumUpTo(f, n - 1)

\* the finally block without the os.remove
os_remove_Missing(path, raises) == UNCHANGED <<inbox, rmFailed>>

\* finally: try: os.remove(path) except: pass
os_remove(path, raises) ==
    IF raises
    THEN /\ SumUpTo(rmFailed, MaxCmds) < MaxRemoveFails
         /\ rmFailed' = [rmFailed EXCEPT ![path] = @ + 1]
         /\ UNCHANGED inbox
    ELSE /\ inbox' = [inbox EXCEPT ![path] = NoInFile]
         /\ UNCHANGED rmFailed

\* the finally block removing the first inbox file whatever was handled
RemoveCmd_FirstFile ==
    /\ wpc = "remove"
    /\ \E raises \in BOOLEAN : os_remove(1, raises)
    /\ wpc' = "next"
    /\ wpath' = 0
    /\ wcmd' = NoCmd
    /\ UNCHANGED <<wtodo, processed, escaped, nWritten,
                   outbox, nextId, returned, patchVars, pollVars, toolVars>>

RemoveCmd ==
    /\ wpc = "remove"
    /\ \E raises \in BOOLEAN : os_remove(wpath, raises)
    /\ wpc' = "next"
    /\ wpath' = 0
    /\ wcmd' = NoCmd
    /\ UNCHANGED <<wtodo, processed, escaped, nWritten,
                   outbox, nextId, returned, patchVars, pollVars, toolVars>>

\* the loop is over: return processed
PassEnd ==
    /\ wpc = "next"
    /\ wtodo = {}
    /\ wpc' = "idle"
    /\ processed' = 0
    /\ UNCHANGED <<wtodo, wpath, wcmd, escaped, nWritten, rmFailed,
                   bridgeVars, patchVars, pollVars, toolVars>>

Watcher == PassBegin \/ LoadCmd \/ OpenResult \/ CloseResult \/ RemoveCmd \/ PassEnd

PatchIdle ==
    /\ wf = Doc(<<>>, <<>>, [groups |-> Absent, config |-> Absent,
                             last_node_id |-> Absent, last_link_id |-> Absent])
    /\ wfPrev = wf
    /\ patchLog = <<>>
    /\ patchExit = "none"

Init == BridgeInit /\ PatchIdle /\ PollIdle /\ ToolIdle

Next == EnqueueOpen \/ EnqueueClose
        \/ PassBegin \/ LoadCmd \/ OpenResult \/ CloseResult \/ RemoveCmd \/ PassEnd

Spec == Init /\ [][Next]_vars

\* start_auto_poll keeps calling run_bridge_once, each call runs to its end,
\* and a client that has created a command file finishes writing it
SpecFair == Spec /\ WF_vars(Watcher) /\ WF_vars(EnqueueClose)

(***************************************************************************)
(* Properties of the bridge                                                *)
(***************************************************************************)
Oneclick(cmd) == cmd.action = "oneclick_build_and_render"

\* C1 (as claimed): once run_bridge_once has handled a command, its result
\* file exists in the outbox with the command's id, and no second result is
\* ever produced for that command.
C1_ExactlyOneResult ==
    \A c \in Ids :
        /\ nWritten[c] >= 1 => outbox[c].st # "none" /\ outbox[c].res.id = c
        /\ nWritten[c] <= 1

\* C1 (amended): once run_bridge_once has handled a command, its result file
\* exists in the outbox with the command's id; a second result is produced
\* for a command only after an os.remove of its command file failed, so a
\* command whose file was removed has exactly one result.
C1_OneResultUnlessRemoveFailed ==
    \A c \in Ids :
        /\ nWritten[c] >= 1 => outbox[c].st # "none" /\ outbox[c].res.id = c
        /\ nWritten[c] <= 1 + rmFailed[c]
        /\ (nWritten[c] >= 1 /\ rmFailed[c] = 0 /\ wpath # c) => inbox[c].st = "none"

\* one command handled once and removed, another handled twice
C1_Witness ==
    /\ nWritten[1] = 1 /\ inbox[1].st = "none" /\ outbox[1].st = "full"
    /\ nWritten[2] = 2 /\ rmFailed[2] = 1 /\ outbox[2].st = "full"

\* C2: under SpecFair every oneclick_build_and_render command that is in the
\* inbox eventually has a fully written result file; a result is either
\* ok = true with data or ok = false with an error string; and a render
\* that outlasts the wait limit gives ok = false.
C2_CommandGetsResult ==
    /\ [](\A c \in Ids : outbox[c].st = "full" =>
              \/ outbox[c].res.ok /\ outbox[c].res.how = "data"
              \/ ~outbox[c].res.ok /\ outbox[c].res.how = "error" /\ outbox[c].res.msg # "")
    /\ [](\A p \in PayloadInputs :
              ~RunAction([id |-> 1, action |-> "oneclick_build_and_render", payload |-> p],
                         [fail |-> "none", render |-> max_wait_time + 2]).ok)
    /\ \A c \in Ids :
          (inbox[c].st = "full" /\ Oneclick(inbox[c].cmd)) ~> (outbox[c].st = "full")

\* a render that timed out has its ok = false result
C2_Witness ==
    /\ outbox[1].st = "full"
    /\ Oneclick(returned[1])
    /\ outbox[1].res = ErrRes(1, "Render timed out after 5 minutes")

\* C6: no error raised while the watcher handles a command leaves
\* run_bridge_once; each is written as {ok: false, id, error} into the
\* command's result file.
C6_NoErrorEscapes ==
    /\ escaped = "none"
    /\ \A c \in Ids : (outbox[c].st = "full" /\ ~outbox[c].res.ok) =>
            outbox[c].res.how = "error" /\ outbox[c].res.id = c

\* C8 (as claimed): the id _ue_enqueue returns is the id in the inbox file
\* and the file's name; the result in outbox/<id>.json is the one written for
\* that command; _ue_fetch(id) answers pending exactly while the result
\* file does not exist and otherwise returns the file's content.
C8_FetchReturnsFileContent ==
    \A c \in Ids :
        /\ inbox[c].st # "none" => inbox[c].cmd.id = c
        /\ returned[c] # NoCmd => returned[c].id = c
        /\ (ue_fetch(c) = PendingRes) <=> (outbox[c].st = "none")
        /\ outbox[c].st # "none" => ue_fetch(c) = Content(outbox[c])

\* C8 (amended): as claimed, except that _ue_fetch returns the file's
\* content only when the file parses as JSON; while the file exists and does
\* not parse (the watcher has opened it and not yet written it) _ue_fetch
\* returns {ok: false, error: <the parse error>}, which is neither pending
\* nor a result of any command.  A parsed result carries the id asked for
\* and is a result of the command queued under that id.
C8_FetchReturnsParsedContent ==
    \A c \in Ids :
        /\ inbox[c].st # "none" => inbox[c].cmd.id = c
        /\ returned[c] # NoCmd => returned[c].id = c
        /\ (ue_fetch(c) = PendingRes) <=> (outbox[c].st = "none")
        /\ outbox[c].st = "open" => ue_fetch(c) = ParseErrRes
        /\ outbox[c].st = "full" =>
              /\ ue_fetch(c) = Content(outbox[c])
              /\ ue_fetch(c).id = c
              /\ \E env \in Envs : ue_fetch(c) = RunAction(returned[c], env)

\* one result being written, another written, a third command pending
C8_Witness ==
    /\ outbox[1].st = "full" /\ ue_fetch(1) = OkRes(1, "out.mp4")
    /\ outbox[2].st = "open" /\ ue_fetch(2) = ParseErrRes
    /\ returned[2].action = "import_asset"

(***************************************************************************)
(* The polling loops, timed.  A loop's clock is time.time() - start in     *)
(* half seconds; a sleep adds its length, nothing else takes time.         *)
(***************************************************************************)
MaxPollTicks == 1300
poll_seconds == 2
poll_timeout_sec == 600
SendUeTimeout == 30

Ticks(sec) == 2 * sec

\* the poll of ue_to_comfy_oneclick without the timeout test
ue_to_comfy_oneclick_poll_NoTimeout(res, expired) ==
    IF res.ok /\ res.movie_path # "" THEN "break"
    ELSE IF ~res.ok /\ res.how # "pending" THEN "failed"
    ELSE "sleep"

\* one iteration of the poll of ue_to_comfy_oneclick on res = _ue_fetch(...),
\* expired being time.time() - start > poll_timeout_sec
ue_to_comfy_oneclick_poll(res, expired) ==
    IF res.ok /\ res.movie_path # "" THEN "break"
    ELSE IF ~res.ok /\ res.how # "pending" THEN "failed"
    ELSE IF expired THEN "timeout"
    ELSE "sleep"

\* the wait returning whatever file it finds
send_ue_command_wait_ReturnsPartial(st) == IF st # "none" THEN 0 ELSE Ticks(1)

\* one iteration of the wait of _send_ue_command on the state of the
\* outbox file: the sleep it makes (in half seconds), 0 when it returns
send_ue_command_wait(st) ==
    IF st # "none"
    THEN IF st = "full" THEN 0 ELSE 1
    ELSE Ticks(1)

\* what the other side may answer to one fetch
PollResponses ==
    {PendingRes, ParseErrRes, OkRes(1, "out.mp4"), OkRes(1, ""), ErrRes(1, "Blueprint not found")}

NeverEnds == 100 * max_wait_time

PollInit ==
    /\ BridgeInit /\ PatchIdle /\ ToolIdle
    /\ pollPc = "loop"
    /\ pollElapsed = 0
    /\ pollEnd = "none"
    /\ \/ /\ pollKind = "oneclick"
          /\ pollArg \in {[timeout |-> t, interval |-> i, render |-> 0] :
                             t \in {0, 7, poll_timeout_sec},
                             i \in {1, poll_seconds, 5}}
       \/ /\ pollKind = "send"
          /\ pollArg = [timeout |-> SendUeTimeout, interval |-> 1, render |-> 0]
       \/ /\ pollKind = "render"
          /\ pollArg \in {[timeout |-> max_wait_time, interval |-> 1, render |-> r] :
                             r \in {0, 3, max_wait_time, max_wait_time + 1,
                                    max_wait_time + 2, NeverEnds}}

PollEnds(how) ==
    /\ pollPc' = "done"
    /\ pollEnd' = how
    /\ UNCHANGED pollElapsed

PollSleeps(ticks) ==
    /\ pollElapsed + ticks <= MaxPollTicks
    /\ pollElapsed' = pollElapsed + ticks
    /\ UNCHANGED <<pollPc, pollEnd>>

\* levl_ue_to_comfy_oneclick_server.ue_to_comfy_oneclick, "while True:"
PollOneclick ==
    /\ pollKind = "oneclick" /\ pollPc = "loop"
    /\ \E res \in PollResponses :
          LET d == ue_to_comfy_oneclick_poll(res, pollElapsed > Ticks(pollArg.timeout))
          IN  IF d = "sleep" THEN PollSleeps(Ticks(pollArg.interval)) ELSE PollEnds(d)
    /\ UNCHANGED <<pollKind, pollArg, patchVars, bridgeVars, watcherVars, toolVars>>

\* UE5Integration._send_ue_command, "while time.time() - start_time < timeout:"
PollSendUe ==
    /\ pollKind = "send" /\ pollPc = "loop"
    /\ IF ~(pollElapsed < Ticks(pollArg.timeout))
       THEN PollEnds("timed out")
       ELSE \E st \in {"none", "open", "full"} :
               LET d == send_ue_command_wait(st)
               IN  IF d = 0 THEN PollEnds("response") ELSE PollSleeps(d)
    /\ UNCHANGED <<pollKind, pollArg, patchVars, bridgeVars, watcherVars, toolVars>>

\* oneclick_build_and_render, "while executor.is_rendering():"
PollRenderWait ==
    /\ pollKind = "render" /\ pollPc = "loop"
    /\ LET d == RenderWaitStep(pollElapsed < Ticks(pollArg.render), pollElapsed \div 2)
       IN  IF d = "delay" THEN PollSleeps(Ticks(1)) ELSE PollEnds(d)
    /\ UNCHANGED <<pollKind, pollArg, patchVars, bridgeVars, watcherVars, toolVars>>

PollNext == PollOneclick \/ PollSendUe \/ PollRenderWait

SpecPoll == PollInit /\ [][PollNext]_vars

\* the latest time a loop may still be running: timeout plus one interval
PollLimit == Ticks(pollArg.timeout + pollArg.interval)

\* C7: each polling loop ends no later than its timeout plus one poll
\* interval whatever is answered: its clock never passes that limit, and every
\* iteration either ends the loop or advances the clock; the render wait
\* ends the way the watcher's result says (RenderWait).
C7_PollingLoopsEnd ==
    /\ [](pollElapsed <= PollLimit)
    /\ [](pollPc = "loop" => ENABLED PollNext)
    /\ [][pollPc = "loop" => (pollPc' = "done" \/ pollElapsed' > pollElapsed)]_vars
    /\ []((pollKind = "render" /\ pollPc = "done") => pollEnd = RenderWait(pollArg.render))

\* the default poll timed out at the last moment it may, the awaited result
\* never having appeared
C7_Witness ==
    /\ pollKind = "oneclick" /\ pollPc = "done" /\ pollEnd = "timeout"
    /\ pollArg.timeout = poll_timeout_sec /\ pollArg.interval = poll_seconds
    /\ pollElapsed = Ticks(poll_timeout_sec + poll_seconds)

(***************************************************************************)
(* launcher.py                                                             *)
(***************************************************************************)
Range(q) == {q[i] : i \in DOMAIN q}

start_comfyui(a) ==
    <<"start_comfyui">> \o (IF a.comfyui_exists THEN <<"run ComfyUI main.py">> ELSE <<>>)

start_blender(a) ==
    <<"start_blender">> \o (IF a.blender_exists THEN <<"run blender">> ELSE <<>>)

start_auto_watcher(a) ==
    <<"start_auto_watcher">> \o (IF a.watcher_exists THEN <<"run auto_git_watcher.py">> ELSE <<>>)

validate_access == TRUE

\* the calls main() makes for the parsed arguments a
launcher_main(a) ==
    IF ~a.no_auth /\ ~validate_access THEN <<>>
    ELSE IF a.comfyui \/ a.all THEN start_comfyui(a)
    ELSE IF a.blender \/ a.all THEN start_blender(a)
    ELSE IF a.watcher \/ a.all THEN start_auto_watcher(a)
    ELSE <<"usage">>

LauncherArgs ==
    [comfyui : BOOLEAN, blender : BOOLEAN, watcher : BOOLEAN, all : BOOLEAN,
     no_auth : BOOLEAN, comfyui_exists : BOOLEAN, blender_exists : BOOLEAN,
     watcher_exists : BOOLEAN]

ToolStart(name, inputs) ==
    /\ BridgeInit /\ PatchIdle /\ PollIdle
    /\ script = name
    /\ argv \in inputs
    /\ spc = "main"
    /\ effects = <<>>
    /\ exitCode = "none"
    /\ ret = NoRet

LauncherInit == ToolStart("launcher", LauncherArgs)

LauncherMain ==
    /\ script = "launcher" /\ spc = "main"
    /\ effects' = launcher_main(argv)
    /\ spc' = "done"
    /\ exitCode' = "0"
    /\ UNCHANGED <<script, argv, ret, patchVars, bridgeVars, watcherVars, pollVars>>

SpecLauncher == LauncherInit /\ [][LauncherMain]_vars

\* C11: when launcher.py is run with --all, start_comfyui, start_blender and
\* start_auto_watcher are all invoked.
C11_AllStartsAllServices ==
    (script = "launcher" /\ spc = "done" /\ argv.all) =>
        {"start_comfyui", "start_blender", "start_auto_watcher"} \subseteq Range(effects)

(***************************************************************************)
(* ue_to_comfy_oneclick.py, the command-line orchestrator                  *)
(***************************************************************************)
\* what a request meets: no server, a server answering an HTTP error, or a
\* server answering 200 with a body
Reach == {"down", "http_error", "up"}

\* the "content" text of a tool answer: none, a JSON text with ok true or
\* false, or a text that is not JSON
ToolBodies == {"none", "ok", "failed", "notjson"}

\* call_mcp_tool: every exception of the request is caught inside it and
\* turned into {"error": ...}; it never raises
call_mcp_tool(reach, body) ==
    IF reach = "down" THEN [raised |-> FALSE, error |-> TRUE, content |-> "none"]
    ELSE IF reach = "http_error" THEN [raised |-> FALSE, error |-> TRUE, content |-> "none"]
    ELSE [raised |-> FALSE, error |-> FALSE, content |-> body]

\* check_server_status: False only when call_mcp_tool raises
check_server_status(reach) == ~call_mcp_tool(reach, "ok").raised

OneclickCliArgs ==
    [status_only : BOOLEAN, dry_run : BOOLEAN,
     reach : [1..3 -> Reach], body : ToolBodies]

OneclickCliInit == ToolStart("ue_to_comfy_oneclick.py", OneclickCliArgs)

ToolStep(pc, calls, next, code) ==
    /\ spc = pc
    /\ effects' = effects \o calls
    /\ spc' = next
    /\ exitCode' = code
    /\ UNCHANGED <<script, argv, ret, patchVars, bridgeVars, watcherVars, pollVars>>

\* "if not check_server_status(...): sys.exit(1)"
CliCheckServer ==
    /\ script = "ue_to_comfy_oneclick.py"
    /\ IF ~check_server_status(argv.reach[1])
       THEN ToolStep("main", <<"check_status">>, "done", "1")
       ELSE ToolStep("main", <<"check_status">>, "status", "none")

\* "status_result = call_mcp_tool(... check_status ...)" to "if args.dry_run"
CliStatus ==
    /\ script = "ue_to_comfy_oneclick.py"
    /\ IF argv.status_only
       THEN ToolStep("status", <<"check_status">>, "done", "0")
       ELSE IF argv.dry_run
       THEN ToolStep("status", <<"check_status">>, "done", "0")
       ELSE ToolStep("status", <<"check_status">>, "call", "none")

\* "result = call_mcp_tool(... ue_to_comfy_oneclick ...)" to the end of main
CliCallTool ==
    /\ script = "ue_to_comfy_oneclick.py"
    /\ LET result == call_mcp_tool(argv.reach[3], argv.body)
       IN  ToolStep("call", <<"ue_to_comfy_oneclick">>, "done",
                    IF result.error THEN "1"
                    ELSE IF result.content = "failed" THEN "1"
                    ELSE "0")

OneclickCliNext == CliCheckServer \/ CliStatus \/ CliCallTool

SpecOneclickCli == OneclickCliInit /\ [][OneclickCliNext]_vars

\* C12: when the MCP server cannot be reached, the orchestrator exits with
\* code 1 at the status check without calling the ue_to_comfy_oneclick tool,
\* also under --status_only or --dry_run; it exits 0 under --status_only only
\* if the server answered.
C12_UnreachableServerExits1 ==
    (script = "ue_to_comfy_oneclick.py" /\ spc # "main") =>
        /\ argv.reach[1] = "down" =>
              /\ spc = "done" /\ exitCode = "1"
              /\ "ue_to_comfy_oneclick" \notin Range(effects)
        /\ (argv.status_only /\ spc = "done" /\ exitCode = "0") =>
              argv.reach[1] # "down"

(***************************************************************************)
(* tools/levl_enqueue.py: _apply_string_overrides                          *)
(* A string is the sequence of its pieces: a placeholder is one piece,     *)
(* "t", "x" are stretches of other text, " " is white space.  Txt, List    *)
(* and Obj (a dict, as the values of its keys in order) build the values.  *)
(***************************************************************************)
MaxOvNodes == 1

Txt(pieces) == Val("text", 0, pieces)
Obj(values) == Val("obj", 0, values)

\* the placeholder each override swaps, in the order main() builds the dict
OverrideKeys == <<"LEVL_INPUT_DIR", "LEVL_REF_IMAGE", "LEVL_OUTPUT_DIR">>
ph(k) ==
    CASE k = "LEVL_INPUT_DIR" -> "{INPUT_PATH}"
      [] k = "LEVL_REF_IMAGE" -> "{REF_IMAGE}"
      [] k = "LEVL_OUTPUT_DIR" -> "{OUTPUT_PATH}"

\* val.replace(old, new)
RECURSIVE str_replace(_, _, _)
str_replace(val, old, new) ==
    IF val = <<>> THEN <<>>
    ELSE (IF Head(val) = old THEN new ELSE <<Head(val)>>)
             \o str_replace(Tail(val), old, new)

\* "v and isinstance(v, str) and v.strip()"
NonBlank(v) == \E i \in DOMAIN v : v[i] # " "

\* the test on the override with the blank test left out
Swaps_AlsoBlank(v, val, k) == ph(k) \in Range(val)

\* "if v and ... v.strip()" and "if ph and ph in val"
Swaps(v, val, k) == NonBlank(v) /\ ph(k) \in Range(val)

\* the loop "for k, v in overrides.items()" from the i-th key on
RECURSIVE replace_in_str(_, _, _)
replace_in_str(val, overrides, i) ==
    IF i > Len(OverrideKeys) THEN val
    ELSE LET k == OverrideKeys[i]
             v == overrides[k]
         IN  replace_in_str(IF Swaps(v, val, k) THEN str_replace(val, ph(k), v) ELSE val,
                            overrides, i + 1)

RECURSIVE replace_in_value(_, _)
replace_in_value(val, overrides) ==
    CASE val.k = "text" -> Txt(replace_in_str(val.e, overrides, 1))
      [] val.k \in {"list", "obj"} ->
            Val(val.k, 0, [i \in DOMAIN val.e |-> replace_in_value(val.e[i], overrides)])
      [] OTHER -> val

OverrideFields == {"properties", "widgets_values", "inputs"}

\* "if field in node and node[field] is not None: node[field] = ..."
OverrideNode(node, overrides) ==
    [f \in DOMAIN node |->
        IF f \in OverrideFields /\ node[f] # Absent /\ ~IsNone(node[f])
        THEN replace_in_value(node[f], overrides)
        ELSE node[f]]

\* json.loads(json.dumps(workflow)): an equal value in a fresh object, so
\* that assignments into it do not reach the original
json_copy(workflow) == [obj |-> workflow, fresh |-> TRUE]

\* _apply_string_overrides(workflow, overrides): [ret, workflow], the value
\* returned and the argument object as the call leaves it.  A workflow is
\* [wrapped, nodes, note]: wrapped when it is {"workflow": graph}, nodes
\* Absent when the graph has no "nodes" key.
apply_string_overrides(workflow, overrides) ==
    IF ~overrides.given THEN [ret |-> workflow, workflow |-> workflow]
    ELSE LET copy == json_copy(workflow)
             nodes == IF copy.obj.nodes = Absent THEN <<>> ELSE copy.obj.nodes
             graph == [copy.obj EXCEPT !.nodes =
                          IF copy.obj.nodes = Absent THEN Absent
                          ELSE [i \in DOMAIN nodes |-> OverrideNode(nodes[i], overrides)]]
         IN  [ret |-> graph, workflow |-> IF copy.fresh THEN workflow ELSE graph]

OvTexts == <<Txt(<<"t">>), Txt(<<"{INPUT_PATH}", "t">>), Txt(<<"{REF_IMAGE}">>),
             Txt(<<"t", "{OUTPUT_PATH}">>)>>

OvNodes ==
    [properties : {Absent, Null, Obj(<<OvTexts[2], Int_(1)>>), Obj(<<Obj(<<OvTexts[4]>>)>>)},
     widgets_values : {Absent, List(<<OvTexts[3], OvTexts[1]>>),
                       List(<<List(<<OvTexts[2]>>), Null>>)},
     inputs : {List(<<>>), List(<<Obj(<<OvTexts[4]>>)>>)},
     title : {OvTexts[2]}]

OvWorkflows ==
    [wrapped : BOOLEAN,
     nodes : {Absent} \cup UNION {[1..n -> OvNodes] : n \in 0..MaxOvNodes},
     note : {OvTexts[3]}]

OvValues == {<<>>, <<" ">>, <<"x">>}

Overrides ==
    [given : {TRUE},
     LEVL_INPUT_DIR : OvValues \cup {<<"{OUTPUT_PATH}">>},
     LEVL_REF_IMAGE : OvValues,
     LEVL_OUTPUT_DIR : OvValues]
    \cup {[given |-> FALSE, LEVL_INPUT_DIR |-> <<>>, LEVL_REF_IMAGE |-> <<>>,
           LEVL_OUTPUT_DIR |-> <<>>]}

OverridesInit ==
    ToolStart("_apply_string_overrides",
              {[workflow |-> w, original |-> w, overrides |-> o] :
                   w \in OvWorkflows, o \in Overrides})

ApplyOverrides ==
    /\ script = "_apply_string_overrides" /\ spc = "main"
    /\ LET r == apply_string_overrides(argv.workflow, argv.overrides)
       IN  /\ ret' = r.ret
           /\ argv' = [argv EXCEPT !.workflow = r.workflow]
    /\ spc' = "done"
    /\ UNCHANGED <<script, effects, exitCode, patchVars, bridgeVars, watcherVars, pollVars>>

SpecOverrides == OverridesInit /\ [][ApplyOverrides]_vars

\* a string that holds a placeholder whose override is a non-blank string
HoldsSetPlaceholder(pieces, ov) ==
    \/ "{INPUT_PATH}" \in Range(pieces) /\ ov.LEVL_INPUT_DIR \notin {<<>>, <<" ">>}
    \/ "{REF_IMAGE}" \in Range(pieces) /\ ov.LEVL_REF_IMAGE \notin {<<>>, <<" ">>}
    \/ "{OUTPUT_PATH}" \in Range(pieces) /\ ov.LEVL_OUTPUT_DIR \notin {<<>>, <<" ">>}

\* b is a but for strings that held such a placeholder
RECURSIVE OnlySwapped(_, _, _)
OnlySwapped(a, b, ov) ==
    CASE a.k = "text" -> b.k = "text" /\ (b.e # a.e => HoldsSetPlaceholder(a.e, ov))
      [] a.k \in {"list", "obj"} ->
            /\ b.k = a.k /\ Len(b.e) = Len(a.e)
            /\ \A i \in DOMAIN a.e : OnlySwapped(a.e[i], b.e[i], ov)
      [] OTHER -> b = a

\* C14: in the workflow _apply_string_overrides returns, a string inside a
\* node's properties / widgets_values / inputs differs from the input only if
\* it held a placeholder whose LEVL_* override is a non-blank string; with
\* all three overrides empty the result equals the input; the workflow
\* object passed in is left as it was.
C14_OnlyPlaceholdersSwapped ==
    (script = "_apply_string_overrides" /\ spc = "done") =>
        LET in == argv.original
            ov == argv.overrides
        IN  /\ argv.workflow = in
            /\ ret.wrapped = in.wrapped
            /\ IF in.nodes = Absent THEN ret.nodes = Absent
               ELSE /\ ret.nodes # Absent /\ Len(ret.nodes) = Len(in.nodes)
                    /\ \A i \in DOMAIN in.nodes : \A f \in OverrideFields :
                          OnlySwapped(in.nodes[i][f], ret.nodes[i][f], ov)
            /\ (\A k \in Range(OverrideKeys) : ov[k] = <<>>) => ret = in

\* {INPUT_PATH} was swapped for "x" inside properties while {REF_IMAGE},
\* whose override is blank, stayed in widgets_values
C14_Witness ==
    /\ script = "_apply_string_overrides" /\ spc = "done"
    /\ argv.overrides.given
    /\ argv.overrides.LEVL_INPUT_DIR = <<"x">> /\ argv.overrides.LEVL_REF_IMAGE = <<" ">>
    /\ argv.original.nodes # Absent /\ Len(argv.original.nodes) = 1
    /\ ret.nodes[1].properties = Obj(<<Txt(<<"x", "t">>), Int_(1)>>)
    /\ ret.nodes[1].widgets_values = List(<<OvTexts[3], OvTexts[1]>>)
    /\ argv.original.nodes[1].properties = Obj(<<OvTexts[2], Int_(1)>>)

(***************************************************************************)
(* tools/levl_enqueue.py: main                                             *)
(***************************************************************************)
retries == 60

\* what one GET of /object_info meets: status 200, another non-error
\* status, or an exception (refused, timeout, HTTP error)
ProbeOutcomes == {"200", "other", "exception"}

\* what the POST of /prompt meets: _http_post returns, or raises
PostOutcomes == {"ok", "HTTPError", "error"}

\* one iteration of "for _ in range(retries)" in _wait_for_server
\* the iteration taking any answer for readiness
wait_for_server_step_AnyAnswer(outcome) == "return True"

wait_for_server_step(outcome) ==
    CASE outcome = "200" -> "return True"
      [] outcome = "other" -> "continue"
      [] outcome = "exception" -> "sleep"

Probes(calls) == {i \in DOMAIN calls : calls[i] \in {"GET /object_info", "GET /object_info 200"}}

EnqueueArgs ==
    {[workflow |-> w, original |-> w, overrides |-> o, post |-> p] :
        w \in {x \in OvWorkflows : x.nodes = Absent \/ x.nodes = <<>>},
        o \in {x \in Overrides : x.given /\ x.LEVL_REF_IMAGE = <<>> /\ x.LEVL_OUTPUT_DIR = <<>>},
        p \in PostOutcomes}

EnqueueInit == ToolStart("levl_enqueue.py", EnqueueArgs)

\* "wf = json.load(f)" to "wf = _apply_string_overrides(wf, overrides)"
EnqLoad ==
    /\ script = "levl_enqueue.py" /\ spc = "main"
    /\ LET r == apply_string_overrides(argv.workflow, argv.overrides)
       IN  /\ ret' = r.ret
           /\ argv' = [argv EXCEPT !.workflow = r.workflow]
    /\ spc' = "wait"
    /\ UNCHANGED <<script, effects, exitCode, patchVars, bridgeVars, watcherVars, pollVars>>

\* _wait_for_server, one probe; "if not _wait_for_server(...): sys.exit(2)"
EnqProbe ==
    /\ script = "levl_enqueue.py"
    /\ IF Cardinality(Probes(effects)) < retries
       THEN \E o \in ProbeOutcomes :
               ToolStep("wait",
                        <<IF o = "200" THEN "GET /object_info 200" ELSE "GET /object_info">>,
                        IF wait_for_server_step(o) = "return True" THEN "post" ELSE "wait",
                        "none")
       ELSE ToolStep("wait", <<>>, "done", "2")

\* "resp = _http_post(.../prompt...)" to the end of main
EnqPost ==
    /\ script = "levl_enqueue.py"
    /\ ToolStep("post", <<"POST /prompt">>, "done", IF argv.post = "ok" THEN "0" ELSE "1")

EnqueueNext == EnqLoad \/ EnqProbe \/ EnqPost

SpecEnqueue == EnqueueInit /\ [][EnqueueNext]_vars

Posts(calls) == {i \in DOMAIN calls : calls[i] = "POST /prompt"}

\* C13: levl_enqueue posts to /prompt only after a probe of /object_info
\* returned 200, the last of at most 60 probes; when no probe succeeds it
\* exits with code 2 without posting; after a successful probe it posts once
\* and exits 0 when the post succeeds, 1 when it fails.
C13_PostOnlyAfterReady ==
    script = "levl_enqueue.py" =>
        /\ Cardinality(Probes(effects)) <= retries
        /\ Cardinality(Posts(effects)) <= 1
        /\ \A i \in Posts(effects) : i > 1 /\ effects[i - 1] = "GET /object_info 200"
        /\ \A i \in DOMAIN effects :
              effects[i] = "GET /object_info 200" => (spc = "post" \/ i + 1 \in Posts(effects))
        /\ spc = "done" =>
              /\ exitCode = "2" <=> Posts(effects) = {}
              /\ exitCode = "2" => /\ Cardinality(Probes(effects)) = retries
                                   /\ "GET /object_info 200" \notin Range(effects)
              /\ exitCode = "0" <=> (Posts(effects) # {} /\ argv.post = "ok")
              /\ exitCode \in {"0", "1", "2"}

\* the server answered 200 to the 60th probe and the one post failed
C13_Witness ==
    /\ script = "levl_enqueue.py" /\ spc = "done" /\ exitCode = "1"
    /\ Len(effects) = retries + 1
    /\ effects[retries] = "GET /object_info 200"
    /\ effects[retries + 1] = "POST /prompt"
    /\ argv.post = "HTTPError"

(***************************************************************************)
(* gamecraft_integration/gamecraft_runner.py: generate_world_video         *)
(***************************************************************************)
MaxActions == 5

DefaultActions == <<"w", "s", "d", "a">>

\* Python "x or default" on a list argument: None and [] are both falsy
PyOr(x, default) == IF IsNone(x) \/ x.e = <<>> THEN default ELSE x

\* the checkpoint always taken to be the standard one
model_file_Standard(use_distilled) == "mp_rank_00_model_states.pt"

model_file(use_distilled) ==
    IF use_distilled THEN "mp_rank_00_model_states_distill.pt"
    ELSE "mp_rank_00_model_states.pt"

\* "# Set defaults" to "if not checkpoint_path.exists()": the exception
\* raised, or the lists the command is built from
generate_world_video_validate(a) ==
    LET actions == PyOr(a.actions, List(DefaultActions))
        action_speeds == PyOr(a.action_speeds, List([i \in DOMAIN actions.e |-> 2]))
    IN  IF Len(actions.e) # Len(action_speeds.e)
        THEN [raise |-> "ValueError", actions |-> actions, action_speeds |-> action_speeds]
        ELSE IF model_file(a.use_distilled) \notin a.weights
        THEN [raise |-> "FileNotFoundError", actions |-> actions, action_speeds |-> action_speeds]
        ELSE [raise |-> "none", actions |-> actions, action_speeds |-> action_speeds]

ListsUpTo(x, n) == {Null} \cup {List([i \in 1..m |-> x]) : m \in 0..n}

GameCraftArgs ==
    [actions : ListsUpTo("w", MaxActions),
     action_speeds : ListsUpTo(2, MaxActions),
     use_distilled : BOOLEAN,
     weights : SUBSET {"mp_rank_00_model_states.pt", "mp_rank_00_model_states_distill.pt"},
     run : {"ok", "failed", "timeout"}]

GameCraftInit == ToolStart("generate_world_video", GameCraftArgs)

GcValidate ==
    /\ script = "generate_world_video" /\ spc = "main"
    /\ LET v == generate_world_video_validate(argv)
       IN  /\ ret' = [actions |-> v.actions, action_speeds |-> v.action_speeds]
           /\ exitCode' = v.raise
           /\ spc' = IF v.raise = "none" THEN "run" ELSE "done"
    /\ UNCHANGED <<script, argv, effects, patchVars, bridgeVars, watcherVars, pollVars>>

\* "cmd = self._build_inference_command(...)" to the end
GcRun ==
    /\ script = "generate_world_video"
    /\ ToolStep("run", <<"torchrun">>, "done",
                IF argv.run = "ok" THEN "0" ELSE "RuntimeError")

GameCraftNext == GcValidate \/ GcRun

SpecGameCraft == GameCraftInit /\ [][GameCraftNext]_vars

\* the length of a list argument as the caller passed it (None: not passed)
PassedLen(x) == IF IsNone(x) THEN -1 ELSE Len(x.e)

\* C15 as stated: torchrun is launched only when the actions and
\* action_speeds passed have the same length and the selected checkpoint
\* exists; passed lists of different lengths end in ValueError and a missing
\* checkpoint in FileNotFoundError, nothing being launched; omitted
\* action_speeds default to as many speeds as there are actions.
C15_LaunchOnlyWhenArgsMatch ==
    (script = "generate_world_video" /\ spc # "main") =>
        LET passedBoth == ~IsNone(argv.actions) /\ ~IsNone(argv.action_speeds)
            mismatch == passedBoth /\ PassedLen(argv.actions) # PassedLen(argv.action_speeds)
        IN  /\ mismatch => exitCode = "ValueError" /\ effects = <<>>
            /\ "torchrun" \in Range(effects) =>
                  model_file(argv.use_distilled) \in argv.weights
            /\ IsNone(argv.action_speeds) => Len(ret.action_speeds.e) = Len(ret.actions.e)

\* C15: torchrun is launched only when, after an omitted or empty actions
\* list was replaced by the four default actions and an omitted or empty
\* action_speeds by one speed per action, both lists have the same length
\* and the selected checkpoint exists; lists that still differ in length end
\* in ValueError and a missing checkpoint in FileNotFoundError, nothing
\* being launched.
C15_LaunchOnlyWhenEffectiveArgsMatch ==
    (script = "generate_world_video" /\ spc # "main") =>
        LET same == Len(ret.actions.e) = Len(ret.action_speeds.e)
            ckpt == (IF argv.use_distilled THEN "mp_rank_00_model_states_distill.pt"
                     ELSE "mp_rank_00_model_states.pt") \in argv.weights
        IN  /\ ret.actions = (IF argv.actions \in {Null, List(<<>>)}
                              THEN List(DefaultActions) ELSE argv.actions)
            /\ ret.action_speeds = (IF argv.action_speeds \in {Null, List(<<>>)}
                                    THEN List([i \in DOMAIN ret.actions.e |-> 2])
                                    ELSE argv.action_speeds)
            /\ ~same => exitCode = "ValueError" /\ effects = <<>>
            /\ (same /\ ~ckpt) => exitCode = "FileNotFoundError" /\ effects = <<>>
            /\ (same /\ ckpt) => exitCode \in {"none", "0", "RuntimeError"}
            /\ (spc = "done" /\ same /\ ckpt) => effects = <<"torchrun">>

\* two actions passed with an empty speed list: no ValueError, torchrun ran
\* with the default speeds
C15_Witness ==
    /\ script = "generate_world_video" /\ spc = "done"
    /\ argv.actions = List(<<"w", "w">>) /\ argv.action_speeds = List(<<>>)
    /\ ret.action_speeds = List(<<2, 2>>)
    /\ argv.use_distilled /\ effects = <<"torchrun">> /\ exitCode = "0"

(***************************************************************************)
(* The ue_to_comfy_oneclick tool of the two MCP servers, run against the   *)
(* watcher.  ret holds the locals of the call: cmd_id, the result the      *)
(* poll broke on (fetched), result_path, the clock (seconds since start)   *)
(* and the dict returned (out).                                            *)
(***************************************************************************)
OneclickServers == {"levl_ue_to_comfy_oneclick_server.py", "levl_ue_to_comfy_server.py"}

\* the poll of levl_ue_to_comfy_oneclick_server breaking on any result file
ue_to_comfy_poll_BreakOnAnyResult(res, expired) ==
    IF res.how # "pending" THEN "break"
    ELSE IF expired THEN "timeout"
    ELSE "sleep"

\* one iteration of the poll of levl_ue_to_comfy_server.ue_to_comfy_oneclick
ue_to_comfy_poll(res, expired) ==
    IF res.ok /\ res.movie_path # "" THEN "break"
    ELSE IF expired THEN "timeout"
    ELSE "sleep"

PollOf(server, res, expired) ==
    IF server = "levl_ue_to_comfy_oneclick_server.py"
    THEN ue_to_comfy_oneclick_poll(res, expired)
    ELSE ue_to_comfy_poll(res, expired)

OneclickToolArgs ==
    [payload : PayloadInputs \cup
               {[bp_path |-> TRUE, resolution |-> "1280x720", output_movie_path |-> ""]},
     poll_seconds : {1},
     poll_timeout_sec : {1}]

\* the bridge after an earlier command was enqueued, rendered and removed:
\* its result lies in the outbox
BridgeAfterOne ==
    LET first == ue_enqueue(1, "oneclick_build_and_render",
                            [bp_path |-> TRUE, resolution |-> "1280x720",
                             output_movie_path |-> "out.mp4"])
    IN  /\ inbox = [f \in Ids |-> NoInFile]
        /\ outbox = [f \in Ids |-> IF f = 1 THEN [st |-> "full", res |-> OkRes(1, "out.mp4")]
                                   ELSE NoOutFile]
        /\ nextId = 2
        /\ returned = [c \in Ids |-> IF c = 1 THEN first.cmd ELSE NoCmd]
        /\ wpc = "idle" /\ wtodo = {} /\ wpath = 0 /\ wcmd = NoCmd
        /\ processed = 0 /\ escaped = "none"
        /\ nWritten = [c \in Ids |-> IF c = 1 THEN 1 ELSE 0]
        /\ rmFailed = [f \in Ids |-> 0]

\* the tool is called on an empty bridge, or after an earlier command
OneclickToolInit ==
    /\ BridgeInit \/ BridgeAfterOne
    /\ PatchIdle /\ PollIdle
    /\ script \in OneclickServers
    /\ argv \in OneclickToolArgs
    /\ spc = "main"
    /\ effects = <<>>
    /\ exitCode = "none"
    /\ ret = NoRet

\* "enq = _ue_enqueue(...)": the command file is created ...
ToolEnqueueOpen ==
    /\ script \in OneclickServers /\ spc = "main"
    /\ nextId \in Ids
    /\ \A f \in Ids : inbox[f].st # "open"
    /\ LET e == ue_enqueue(nextId, "oneclick_build_and_render", argv.payload)
       IN  /\ inbox' = [inbox EXCEPT ![e.path] = [st |-> "open", cmd |-> e.cmd]]
           /\ ret' = [cmd_id |-> e.ret.id, fetched |-> NoRes, result_path |-> "",
                      elapsed |-> 0, out |-> "none"]
    /\ nextId' = nextId + 1
    /\ spc' = "enqueue"
    /\ UNCHANGED <<script, argv, effects, exitCode, outbox, returned,
                   watcherVars, patchVars, pollVars>>

\* ... and once it is written (EnqueueClose) the call goes on: start = time.time()
ToolEnqueued ==
    /\ script \in OneclickServers /\ spc = "enqueue"
    /\ returned[ret.cmd_id] # NoCmd
    /\ spc' = "poll"
    /\ UNCHANGED <<script, argv, effects, exitCode, ret, bridgeVars,
                   watcherVars, patchVars, pollVars>>

\* one iteration of "while True:"
ToolPoll ==
    /\ script \in OneclickServers /\ spc = "poll"
    /\ LET res == ue_fetch(ret.cmd_id)
           d == PollOf(script, res, ret.elapsed > argv.poll_timeout_sec)
       IN  CASE d = "break" ->
                  /\ ret' = [ret EXCEPT !.fetched = res, !.result_path = res.movie_path]
                  /\ spc' = "submit"
             [] d = "failed" ->
                  /\ ret' = [ret EXCEPT !.out = "UE render failed"]
                  /\ spc' = "done"
             [] d = "timeout" ->
                  /\ ret' = [ret EXCEPT !.out = "UE render timed out"]
                  /\ spc' = "done"
             [] d = "sleep" ->
                  /\ ret' = [ret EXCEPT !.elapsed = @ + argv.poll_seconds]
                  /\ spc' = "poll"
    /\ UNCHANGED <<script, argv, effects, exitCode, bridgeVars,
                   watcherVars, patchVars, pollVars>>

\* "resp = _submit_to_comfy(..., result_path, ...)" and the return
ToolSubmit ==
    /\ script \in OneclickServers /\ spc = "submit"
    /\ effects' = Append(effects, [call |-> "_submit_to_comfy", video |-> ret.result_path])
    /\ \E comfy \in {"ok", "failed", "exception"} :
          ret' = [ret EXCEPT !.out =
                     CASE comfy = "exception" -> "Comfy submission failed"
                       [] comfy = "failed" /\ script = "levl_ue_to_comfy_oneclick_server.py"
                             -> "ComfyUI failed"
                       [] OTHER -> "ok"]
    /\ spc' = "done"
    /\ UNCHANGED <<script, argv, exitCode, bridgeVars, watcherVars, patchVars, pollVars>>

OneclickToolNext ==
    \/ ToolEnqueueOpen \/ ToolEnqueued \/ ToolPoll \/ ToolSubmit
    \/ EnqueueClose
    \/ PassBegin \/ LoadCmd \/ OpenResult \/ CloseResult \/ RemoveCmd \/ PassEnd

SpecOneclickTool == OneclickToolInit /\ [][OneclickToolNext]_vars

\* C16: ue_to_comfy_oneclick submits to ComfyUI only after it fetched, for
\* the id of the command it enqueued itself, a result with ok = true and a
\* non-empty movie_path; the video it submits is that movie_path; it submits
\* at most once, and not at all when it returns a UE failure or a timeout.
C16_SubmitOnlyAfterOwnRender ==
    script \in OneclickServers =>
        /\ Len(effects) <= 1
        /\ effects # <<>> => spc = "done"
        /\ (spc \in {"submit", "done"} /\ ret.out \notin {"UE render failed", "UE render timed out"}) =>
              /\ ret.fetched.ok /\ ret.fetched.movie_path # ""
              /\ ret.fetched.id = ret.cmd_id
              /\ returned[ret.cmd_id].payload = argv.payload
              /\ ret.fetched.movie_path = argv.payload.output_movie_path
              /\ \A i \in DOMAIN effects : effects[i].video = ret.fetched.movie_path
        /\ (spc = "done" /\ ret.out \in {"UE render failed", "UE render timed out"}) =>
              effects = <<>>
        /\ spc = "done" => (effects = <<>> <=> ret.out \in {"UE render failed", "UE render timed out"})

\* the call enqueued command 2 while command 1 had its result, waited one
\* poll interval, fetched its own result and submitted its movie
C16_Witness ==
    /\ script = "levl_ue_to_comfy_server.py" /\ spc = "done"
    /\ ret.cmd_id = 2 /\ ret.elapsed = 1
    /\ outbox[1].st = "full" /\ outbox[1].res.ok
    /\ effects = <<[call |-> "_submit_to_comfy", video |-> "out.mp4"]>>
    /\ ret.out = "ok"

(***************************************************************************)
(* ue5_integration.py: UE5Integration.full_ai_to_render_pipeline           *)
(* A response is what _send_ue_command returns: the content of the result  *)
(* file, {ok: true, data} or {ok: false, error}, or its own timeout dict   *)
(* {success: false, ...}.  has_* tells which keys the dict has.            *)
(***************************************************************************)
MaxAssets == 4

OkResponse == [has_ok |-> TRUE, ok |-> TRUE, has_success |-> FALSE, success |-> FALSE]
ErrResponse == [has_ok |-> TRUE, ok |-> FALSE, has_success |-> FALSE, success |-> FALSE]
TimeoutResponse == [has_ok |-> FALSE, ok |-> FALSE, has_success |-> TRUE, success |-> FALSE]
Responses == {OkResponse, ErrResponse, TimeoutResponse}

\* response.get(key) as a truth value: None when the key is missing
Get_ok(response) == response.has_ok /\ response.ok
Get_success(response) == response.has_success /\ response.success

\* the test the pipeline makes on a response
Succeeded(response) == Get_success(response)

PipelineInit ==
    ToolStart("full_ai_to_render_pipeline", [asset_configs : 0..MaxAssets])

\* "for i, asset_config in enumerate(asset_configs)": one import
PipeImport ==
    /\ script = "full_ai_to_render_pipeline"
    /\ spc \in {"main", "import"}
    /\ LET r == IF spc = "main"
                THEN [steps |-> <<>>, assets_imported |-> <<>>, render_output |-> "None",
                      render |-> TimeoutResponse]
                ELSE ret
           i == Len(r.steps) + 1
       IN  /\ i <= argv.asset_configs
           /\ \E import_result \in Responses :
                 ret' = [r EXCEPT !.steps = Append(@, import_result),
                                  !.assets_imported =
                                      IF Succeeded(import_result) THEN Append(@, i) ELSE @]
    /\ spc' = "import"
    /\ effects' = Append(effects, "import_asset")
    /\ UNCHANGED <<script, argv, exitCode, patchVars, bridgeVars, watcherVars, pollVars>>

\* "# Step 2" to the return: results['assets_imported'][0] of step 3
\* raises IndexError when nothing was listed
PipeSceneToRender ==
    /\ script = "full_ai_to_render_pipeline"
    /\ \/ spc = "main" /\ argv.asset_configs = 0
       \/ spc = "import" /\ Len(ret.steps) = argv.asset_configs
    /\ LET r == IF spc = "main"
                THEN [steps |-> <<>>, assets_imported |-> <<>>, render_output |-> "None",
                      render |-> TimeoutResponse]
                ELSE ret
       IN  IF r.assets_imported = <<>>
           THEN /\ ret' = r
                /\ effects' = Append(effects, "setup_ai_scene")
                /\ exitCode' = "IndexError"
           ELSE /\ \E render_result \in Responses :
                      ret' = [r EXCEPT !.render = render_result,
                                       !.render_output =
                                           IF Succeeded(render_result)
                                           THEN "output_path" ELSE @]
                /\ effects' = effects \o <<"setup_ai_scene", "create_sequence_with_asset",
                                           "render_sequence">>
                /\ exitCode' = "0"
    /\ spc' = "done"
    /\ UNCHANGED <<script, argv, patchVars, bridgeVars, watcherVars, pollVars>>

PipelineNext == PipeImport \/ PipeSceneToRender

SpecPipeline == PipelineInit /\ [][PipelineNext]_vars

\* C17: full_ai_to_render_pipeline lists an asset in assets_imported iff the
\* result of its import_asset command has ok = true, and sets render_output
\* iff the result of the render command has ok = true.
C17_ClientSucceedsIffOk ==
    (script = "full_ai_to_render_pipeline" /\ spc # "main") =>
        /\ \A i \in DOMAIN ret.steps :
              (i \in Range(ret.assets_imported)) <=> Get_ok(ret.steps[i])
        /\ (spc = "done" /\ exitCode = "0") =>
              (ret.render_output # "None" <=> Get_ok(ret.render))

\* an import answered {ok: true, data} and the asset is not listed
C17_Witness ==
    /\ script = "full_ai_to_render_pipeline" /\ spc = "done"
    /\ argv.asset_configs = 2
    /\ ret.steps = <<OkResponse, ErrResponse>>
    /\ ret.assets_imported = <<>>
    /\ exitCode = "IndexError"

(***************************************************************************)
(* gamecraft_integration/video_processor.py: the frame loop and the        *)
(* scene-layout summary                                                    *)
(***************************************************************************)
MaxFrames == 11

\* what cap.read() and the models give for one frame: whether the depth
\* model returned a map, and the detections (None when detection raised);
\* hi tells score > 0.5
Det(label, hi) == [label |-> label, hi |-> hi]
FrameKinds ==
    {[depth |-> TRUE, failed |-> FALSE,
      results |-> <<Det("car", TRUE), Det("car", TRUE), Det("tree", FALSE)>>],
     [depth |-> FALSE, failed |-> FALSE,
      results |-> <<Det("tree", TRUE), Det("car", TRUE), Det("tree", TRUE), Det("tree", TRUE)>>],
     [depth |-> FALSE, failed |-> TRUE, results |-> <<>>]}

Put(f, key, value) == [k \in DOMAIN f \cup {key} |-> IF k = key THEN value ELSE f[k]]

\* _detect_objects: "for detection in results" from the i-th on
RECURSIVE count_by_label(_, _, _)
count_by_label(results, i, counts) ==
    IF i > Len(results) THEN counts
    ELSE LET label == results[i].label
         IN  count_by_label(results, i + 1,
                 IF results[i].hi
                 THEN IF label \in DOMAIN counts
                      THEN Put(counts, label, counts[label] + 1)
                      ELSE Put(counts, label, 1)
                 ELSE counts)

NoCounts == [l \in {} |-> 0]

\* object_masks of a frame: None when detection raised
detect_objects(frame) ==
    IF frame.failed THEN [none |-> TRUE, count_by_label |-> NoCounts]
    ELSE [none |-> FALSE, count_by_label |-> count_by_label(frame.results, 1, NoCounts)]

\* "for frame_data in frames_data: ... all_objects[label].append(count)"
RECURSIVE all_objects(_, _, _)
all_objects(frames_data, i, acc) ==
    IF i > Len(frames_data) THEN acc
    ELSE LET m == frames_data[i].object_masks
             add == IF ~m.none /\ DOMAIN m.count_by_label # {}
                    THEN [l \in DOMAIN acc \cup DOMAIN m.count_by_label |->
                             IF l \in DOMAIN m.count_by_label
                             THEN Append(IF l \in DOMAIN acc THEN acc[l] ELSE <<>>,
                                         m.count_by_label[l])
                             ELSE acc[l]]
                    ELSE acc
         IN  all_objects(frames_data, i + 1, add)

RECURSIVE np_max(_)
np_max(counts) ==
    IF Len(counts) = 1 THEN counts[1] ELSE Max(counts[1], np_max(Tail(counts)))

\* suitable_for_3d with ">= 10" for "> 10"
suitable_for_3d_AtLeastTen(frames_data) ==
    Len(frames_data) >= 10 /\ \E i \in DOMAIN frames_data : frames_data[i].depth_map

suitable_for_3d(frames_data) ==
    Len(frames_data) > 10 /\ \E i \in DOMAIN frames_data : frames_data[i].depth_map

\* _create_environment_layout(frames_data)
create_environment_layout(frames_data) ==
    LET objs == all_objects(frames_data, 1, [l \in {} |-> <<>>])
    IN  [scene_elements |->
             [l \in DOMAIN objs |-> [frequency |-> Len(objs[l]), max_count |-> np_max(objs[l])]],
         reconstruction_hints |->
             [has_depth_data |-> \E i \in DOMAIN frames_data : frames_data[i].depth_map,
              has_object_data |-> \E i \in DOMAIN frames_data : ~frames_data[i].object_masks.none,
              frame_count |-> Len(frames_data),
              suitable_for_3d |-> suitable_for_3d(frames_data)]]

VideoInit == ToolStart("VideoProcessor", {[video |-> "v.mp4"]})

\* one iteration of "while True:" of _extract_and_analyze_frames; effects
\* is frames_data, the frame_id of the next frame its length
ReadFrame ==
    /\ script = "VideoProcessor" /\ spc \in {"main", "frames"}
    /\ Len(effects) < MaxFrames
    /\ \E frame \in FrameKinds :
          effects' = Append(effects, [frame_id |-> Len(effects),
                                      depth_map |-> frame.depth,
                                      object_masks |-> detect_objects(frame)])
    /\ spc' = "frames"
    /\ UNCHANGED <<script, argv, exitCode, ret, patchVars, bridgeVars, watcherVars, pollVars>>

\* cap.read() returns no frame: the loop ends and the layout is made
EndOfVideo ==
    /\ script = "VideoProcessor" /\ spc \in {"main", "frames"}
    /\ ret' = create_environment_layout(effects)
    /\ spc' = "done"
    /\ exitCode' = "0"
    /\ UNCHANGED <<script, argv, effects, patchVars, bridgeVars, watcherVars, pollVars>>

VideoNext == ReadFrame \/ EndOfVideo

SpecVideo == VideoInit /\ [][VideoNext]_vars

\* the frames whose count_by_label has the label
FramesWith(label) ==
    {i \in DOMAIN effects : /\ ~effects[i].object_masks.none
                            /\ label \in DOMAIN effects[i].object_masks.count_by_label}

\* C18: frames get the frame_ids 0, 1, 2, ...; for every detected label
\* scene_elements[label].frequency is the number of frames whose
\* count_by_label has the label (at most frame_count) and max_count the
\* largest per-frame count; frame_count is the number of frames; and
\* suitable_for_3d is true exactly when there are more than 10 frames and at
\* least one has a depth map.
C18_LayoutSummarisesFrames ==
    script = "VideoProcessor" =>
        /\ \A i \in DOMAIN effects : effects[i].frame_id = i - 1
        /\ spc = "done" =>
              /\ DOMAIN ret.scene_elements = {l \in {"car", "tree"} : FramesWith(l) # {}}
              /\ \A l \in DOMAIN ret.scene_elements :
                    /\ ret.scene_elements[l].frequency = Cardinality(FramesWith(l))
                    /\ ret.scene_elements[l].frequency <= ret.reconstruction_hints.frame_count
                    /\ \E i \in FramesWith(l) :
                          ret.scene_elements[l].max_count = effects[i].object_masks.count_by_label[l]
                    /\ \A i \in FramesWith(l) :
                          ret.scene_elements[l].max_count >= effects[i].object_masks.count_by_label[l]
              /\ ret.reconstruction_hints.frame_count = Len(effects)
              /\ ret.reconstruction_hints.suitable_for_3d <=>
                    (Len(effects) > 10 /\ \E i \in DOMAIN effects : effects[i].depth_map)

\* eleven frames, the last the only one with a depth map: suitable for 3D;
\* cars counted in every frame but the third, at most two per frame
C18_Witness ==
    /\ script = "VideoProcessor" /\ spc = "done"
    /\ Len(effects) = 11
    /\ effects[11].depth_map /\ \A i \in 1..10 : ~effects[i].depth_map
    /\ effects[3].object_masks.none
    /\ ret.reconstruction_hints.suitable_for_3d
    /\ ret.scene_elements["car"] = [frequency |-> 10, max_count |-> 2]
    /\ ret.scene_elements["tree"].max_count = 3

(***************************************************************************)
(* Consumption of commands by the watcher                                  *)
(***************************************************************************)
\* C19 (as claimed): a command file that run_bridge_once handled is gone
\* from the inbox once its handling is over, whether the action succeeded or
\* failed, so that no command is executed more than once.
C19_HandledCommandsAreRemoved ==
    \A c \in Ids :
        /\ (nWritten[c] >= 1 /\ wpath # c) => inbox[c].st = "none"
        /\ nWritten[c] <= 1

\* C19 (amended): a command file that run_bridge_once handled is gone from
\* the inbox once its handling is over unless its os.remove failed; a
\* command is executed at most once more than its os.remove failed; and when
\* a pass runs to its end, the files left in the inbox are files whose
\* os.remove failed or files that were never handled (written after the
\* pass listed the inbox).
C19_RemovedUnlessRemoveFailed ==
    /\ [](\A c \in Ids :
             /\ (nWritten[c] >= 1 /\ wpath # c /\ inbox[c].st # "none") => rmFailed[c] >= 1
             /\ (nWritten[c] >= 1 /\ wpath # c /\ outbox[c].res.ok /\ rmFailed[c] = 0)
                    => inbox[c].st = "none"
             /\ (nWritten[c] >= 1 /\ wpath # c /\ ~outbox[c].res.ok /\ rmFailed[c] = 0)
                    => inbox[c].st = "none"
             /\ nWritten[c] <= 1 + rmFailed[c])
    /\ [][(wpc = "next" /\ wpc' = "idle" /\ escaped' = "none") =>
             \A f \in Ids : inbox'[f].st # "none" =>
                 (rmFailed[f] >= 1 \/ (nWritten[f] = 0 /\ f \notin wtodo))]_vars

\* after a pass that ran to its end: command 1 failed and is still in the
\* inbox because its os.remove failed, command 2 succeeded and is consumed
C19_Witness ==
    /\ wpc = "idle" /\ escaped = "none"
    /\ inbox[1].st = "full" /\ rmFailed[1] = 1 /\ nWritten[1] = 1
    /\ outbox[1].st = "full" /\ ~outbox[1].res.ok
    /\ inbox[2].st = "none" /\ nWritten[2] = 1 /\ outbox[2].res.ok

(***************************************************************************)
(* UE5Integration._send_ue_command, run against the watcher.  ret holds    *)
(* the locals of the call: cmd_id, the clock (half seconds since           *)
(* start_time) and the dict returned.                                      *)
(***************************************************************************)
\* the dict returned after the timeout
SendTimedOut == [ok |-> FALSE, id |-> 0, how |-> "timeout",
                 msg |-> "UE command timed out after 30 seconds", movie_path |-> ""]

SendUeInit ==
    ToolStart("_send_ue_command",
              [action : {"import_asset", "setup_ai_scene", "render_sequence"}])

\* "with open(inbox_file, 'w') as f:" creates the command file ...
SendWriteOpen ==
    /\ script = "_send_ue_command" /\ spc = "main"
    /\ nextId \in Ids
    /\ inbox' = [inbox EXCEPT ![nextId] =
                    [st |-> "open",
                     cmd |-> [id |-> nextId, action |-> argv.action, payload |-> NoCmd.payload]]]
    /\ nextId' = nextId + 1
    /\ ret' = [cmd_id |-> nextId, elapsed |-> 0, response |-> NoRes]
    /\ spc' = "write"
    /\ UNCHANGED <<script, argv, effects, exitCode, outbox, returned,
                   watcherVars, patchVars, pollVars>>

\* ... json.dump fills it and the with block closes it; start_time = time.time()
SendWriteClose ==
    /\ script = "_send_ue_command" /\ spc = "write"
    /\ inbox' = [inbox EXCEPT ![ret.cmd_id].st = "full"]
    /\ spc' = "wait"
    /\ UNCHANGED <<script, argv, effects, exitCode, ret, outbox, nextId, returned,
                   watcherVars, patchVars, pollVars>>

\* one test of "while time.time() - start_time < timeout:" and its body
SendWait ==
    /\ script = "_send_ue_command" /\ spc = "wait"
    /\ IF ~(ret.elapsed < Ticks(SendUeTimeout))
       THEN /\ ret' = [ret EXCEPT !.response = SendTimedOut]
            /\ spc' = "done"
       ELSE LET d == send_ue_command_wait(outbox[ret.cmd_id].st)
            IN  IF d = 0
                THEN /\ ret' = [ret EXCEPT !.response = outbox[ret.cmd_id].res]
                     /\ spc' = "done"
                ELSE /\ ret' = [ret EXCEPT !.elapsed = @ + d]
                     /\ spc' = "wait"
    /\ UNCHANGED <<script, argv, effects, exitCode, bridgeVars,
                   watcherVars, patchVars, pollVars>>

SendUeNext ==
    \/ SendWriteOpen \/ SendWriteClose \/ SendWait
    \/ PassBegin \/ LoadCmd \/ OpenResult \/ CloseResult \/ RemoveCmd \/ PassEnd

SpecSendUe == SendUeInit /\ [][SendUeNext]_vars

\* C20: while outbox/<id>.json exists but does not parse, _send_ue_command
\* does not return: it sleeps half a second and reads again; it returns the
\* content of the file at the first read that parses, which is a result
\* the watcher wrote completely for this command, or, once 30 s have
\* passed, its timeout dict.
C20_PartialResultIsRetried ==
    /\ [][(script = "_send_ue_command" /\ spc = "wait" /\ ret' # ret) =>
             LET st == outbox[ret.cmd_id].st
                 intime == ret.elapsed < Ticks(SendUeTimeout)
             IN  /\ (intime /\ st = "open") =>
                        (spc' = "wait" /\ ret'.elapsed = ret.elapsed + 1 /\ ret'.response = NoRes)
                 /\ (intime /\ st = "none") =>
                        (spc' = "wait" /\ ret'.elapsed = ret.elapsed + Ticks(1))
                 /\ (intime /\ st = "full") =>
                        (spc' = "done" /\ ret'.response = outbox[ret.cmd_id].res)
                 /\ ~intime => (spc' = "done" /\ ret'.response = SendTimedOut)]_vars
    /\ []((script = "_send_ue_command" /\ spc = "done") =>
             \/ ret.response = SendTimedOut /\ ret.elapsed >= Ticks(SendUeTimeout)
             \/ /\ ret.response.id = ret.cmd_id
                /\ ret.response.how \in {"data", "error"}
                /\ nWritten[ret.cmd_id] >= 1)

\* the client found no file, slept a second, found the file half written,
\* slept half a second, and then read the watcher's complete answer
C20_Witness ==
    /\ script = "_send_ue_command" /\ spc = "done"
    /\ ret.elapsed = 3
    /\ ret.response = ErrRes(1, "Unknown action")
    /\ argv.action = "import_asset"

\* the result file of the tool's own command holds a failure written by UE
UeWroteFailure ==
    /\ script \in OneclickServers /\ spc = "poll"
    /\ outbox[ret.cmd_id].st = "full"
    /\ ~outbox[ret.cmd_id].res.ok /\ outbox[ret.cmd_id].res.how = "error"

\* an iteration of the tool's poll loop
ToolFetches == spc = "poll" /\ <<spc, ret>>' # <<spc, ret>>

\* C21: in both servers, once UE has written a failure result (ok = false
\* with an error) for the command the tool enqueued, the next fetch of
\* ue_to_comfy_oneclick ends the poll with "UE render failed"; the tool
\* neither sleeps again nor reports a timeout.
C21_FailureStopsPolling ==
    [][(UeWroteFailure /\ ToolFetches) =>
          (spc' = "done" /\ ret'.out = "UE render failed" /\ ret'.elapsed = ret.elapsed)]_vars

\* the same for levl_ue_to_comfy_oneclick_server.py alone
C21_FailureStopsPollingOneclickServer ==
    [][(UeWroteFailure /\ ToolFetches /\ script = "levl_ue_to_comfy_oneclick_server.py") =>
          (spc' = "done" /\ ret'.out = "UE render failed" /\ ret'.elapsed = ret.elapsed)]_vars

\* levl_ue_to_comfy_server.py polled a failure result until its timeout
C21_Witness ==
    /\ script = "levl_ue_to_comfy_server.py" /\ spc = "done"
    /\ outbox[ret.cmd_id].st = "full"
    /\ outbox[ret.cmd_id].res = ErrRes(ret.cmd_id, "Blueprint not found")
    /\ ret.elapsed > argv.poll_timeout_sec
    /\ ret.out = "UE render timed out"
    /\ effects = <<>>

====
